---- MODULE Spec2Model ----
(***************************************************************************)
(* A model of the reactive runtime of sinter_ui                            *)
(* (src/sinter_ui/src/reactivity.rs and reactivity/runtime.rs).            *)
(*                                                                         *)
(* The runtime is single threaded and re-entrant: a write runs effects,    *)
(* whose bodies write, create and dispose.  The model keeps the Rust call  *)
(* stack as the variable `stack`; every function of the runtime that calls *)
(* a closure is a frame on it, and one action advances the frame on top.   *)
(* While the stack is not empty nothing but the frame on top can move, so  *)
(* a handler always runs to its end before the next top-level call.        *)
(*                                                                         *)
(* Closures (effect bodies, scope bodies, cleanup callbacks) are short     *)
(* programs over the public API, named in Prog.  They reach nodes through  *)
(* the registers `reg`: shared cells (Rc<Cell<Option<handle>>>) holding    *)
(* the handles the program has stored.                                     *)
(*                                                                         *)
(* The keyed list (src/sinter_ui/src/flow/for_loop.rs) is one more frame:  *)
(* the closure of its driving effect, with the row map and the children of *)
(* the list's container as state.                                          *)
(***************************************************************************)
EXTENDS Integers, Sequences, FiniteSets, TLC

\* Bounds of the model.
MaxOps == 3      \* top-level API calls after the program's set-up
MaxDepth == 24   \* frames on the call stack
MaxVal == 1      \* signal values are 0..MaxVal
MaxRenders == 2  \* writes of the keyed list's items in one behaviour
MaxCalls == 2    \* top-level API calls in a behaviour of a program with a resource

VARIABLES
    nodes,          \* Runtime.nodes: the live keys of the SlotMap and their Node
    versions,       \* SlotMap: the version of the key last handed out per slot
    free,           \* SlotMap: the free list of slots, most recently freed first
    current_owner,  \* Runtime.current_owner
    stack,          \* the call stack, top first
    reg,            \* the program's handle cells
    scen,           \* the program being run
    budget,         \* top-level calls left
    active_rows,    \* For::mount: the rows of the keyed list, key -> (wrapper, row scope)
    root,           \* For::mount: the children of the list's container, in order
    elements,       \* the number of DOM elements created for rows
    alive,          \* create_resource: the liveness flags (Rc<Cell<bool>>), one per resource
    tasks,          \* spawn_local: the fetches started and not yet completed, oldest first
    overflow_checks,\* the build: whether an arithmetic overflow panics (else it wraps)
    hist            \* history: what the claims speak about and the code does not keep

vars ==
    <<nodes, versions, free, current_owner, stack, reg, scen, budget, active_rows, root,
      elements, alive, tasks, overflow_checks, hist>>

----------------------------------------------------------------------------
\* Basic types

\* Option<NodeId>::None; a NodeId is a slot index with the slot's version.
None == [idx |-> 0, version |-> 0]

\* Option::None for a value.
NoValue == -1

NoComputation == [p |-> "none"]

Values == 0..MaxVal

\* usize (32 bits on wasm32) as its two 16-bit halves, high half first.
Half == 65536

Zero == <<0, 0>>

UsizeMax == <<Half - 1, Half - 1>>

usize(n) == <<n \div Half, n % Half>>

\* v + 1 for v < usize::MAX
succ(v) == IF v[2] < Half - 1 THEN <<v[1], v[2] + 1>> ELSE <<v[1] + 1, 0>>

\* v - 1 for v > 0
pred(v) == IF v[2] > 0 THEN <<v[1], v[2] - 1>> ELSE <<v[1] - 1, Half - 1>>

\* usize::wrapping_add(v, 1)
wrapping_add_one(v) == IF v = UsizeMax THEN Zero ELSE succ(v)

new_node(kind) ==
    [kind |-> kind, value |-> <<>>, computation |-> NoComputation,
     subscribers |-> <<>>, dependencies |-> <<>>, children |-> <<>>,
     parent |-> None, cleanups |-> <<>>, context |-> <<>>]

SeqSet(s) == {s[i] : i \in 1..Len(s)}

contains(s, x) == \E i \in 1..Len(s) : s[i] = x

\* iter().position(|&x| x == id): the first index holding id, 0 for None.
position(s, x) ==
    IF contains(s, x) THEN CHOOSE i \in 1..Len(s) : s[i] = x /\ \A j \in 1..(i-1) : s[j] # x
    ELSE 0

\* Vec::swap_remove(idx): the last element takes the place of the removed one.
swap_remove(s, i) ==
    LET n == Len(s) IN
    [j \in 1..(n-1) |-> IF j = i THEN s[n] ELSE s[j]]

Count(s, x) == Cardinality({i \in 1..Len(s) : s[i] = x})

----------------------------------------------------------------------------
\* The programs.  An op is one call of the public API made by a closure.

Get(r) == [op |-> "get", r |-> r]
GetUntracked(r) == [op |-> "get_untracked", r |-> r]
Set(r, v) == [op |-> "set", r |-> r, v |-> v]
CreateSignal(r, v) == [op |-> "create_signal", r |-> r, v |-> v]
CreateEffect(p) == [op |-> "create_effect", p |-> p]
CreateScope(p, r) == [op |-> "create_scope", p |-> p, r |-> r]
Dispose(r) == [op |-> "dispose", r |-> r]
OnCleanup(p) == [op |-> "on_cleanup", p |-> p]
Untrack(p) == [op |-> "untrack", p |-> p]
CreateMemo(f, r) == [op |-> "create_memo", f |-> f, r |-> r]
ProvideContext(t, v) == [op |-> "provide_context", t |-> t, v |-> v]
\* provide_context::<t>(last_value)
ProvideLast(t) == [op |-> "provide_last", t |-> t]
UseContext(t) == [op |-> "use_context", t |-> t]
\* last_value = max(last_value, r.get())
GetMax(r) == [op |-> "get_max", r |-> r]
\* For::new(items_fn, key_fn, map_fn).mount(parent)
MountFor == [op |-> "mount_for"]
\* create_resource(source, fetcher)
CreateResource(source) == [op |-> "create_resource", source |-> source]
\* provide_context::<t>(handle kept in r)
ProvideHandle(t, r) == [op |-> "provide_handle", t |-> t, r |-> r]
\* alive_clone.set(false), the body of the cleanup registered by create_resource
AliveOff == [op |-> "alive_off"]
\* `if last_value == v { next n ops }`
IfEq(v, n) == [op |-> "if_eq", v |-> v, n |-> n]

SigRegs == {"a", "b", "c"}
ScopeRegs == {"x", "y"}
MemoRegs == {"m", "n"}
\* items: the signal read by the keyed list's items getter; row: the scope
\* returned by the create_scope of the row being built.
ForRegs == {"items", "row"}
\* data, loading, trigger: the signals of the Resource returned last; count:
\* the signal of the SuspenseContext made last.
ResRegs == {"data", "loading", "trigger", "count"}
Regs == SigRegs \cup ScopeRegs \cup MemoRegs \cup ForRegs \cup ResRegs

\* The keys of the keyed list's items; an item is its key.
Keys == {"A", "B", "C"}

\* The item lists written to the keyed list: every list of at most two keys
\* and every order of the three keys.
ItemLists ==
    {<<>>} \cup {<<k>> : k \in Keys} \cup {<<k1, k2>> : k1 \in Keys, k2 \in Keys}
    \cup {l \in [1..3 -> Keys] : \A i, j \in 1..3 : l[i] = l[j] => i = j}

\* The types context values are keyed by (TypeId).
Types == {"T1", "T2"}

\* TypeId of SuspenseContext
SuspenseType == "SuspenseContext"

Prog(p) ==
    CASE p = "read_a" -> <<Get("a")>>
      [] p = "read_ab" -> <<Get("a"), Get("b")>>
      [] p = "read_aa" -> <<Get("a"), Get("a")>>
      \* if a.get() == 0 { b.get(); }
      [] p = "branch" -> <<Get("a"), IfEq(0, 1), Get("b")>>
      \* a.get(); b.set(1);
      [] p = "a_to_b" -> <<Get("a"), Set("b", 1)>>
      \* a.get(); create_effect(read_a);
      [] p = "parent_first" -> <<Get("a"), CreateEffect("read_a")>>
      \* create_effect(read_a); a.get();
      [] p = "child_first" -> <<CreateEffect("read_a"), Get("a")>>
      [] p = "scope_body" -> <<CreateEffect("read_ab"), OnCleanup("read_a")>>
      \* a.get(); create_effect(read_a); on_cleanup(|| a.set(1));
      [] p = "rearm" -> <<Get("a"), CreateEffect("read_a"), OnCleanup("set_a")>>
      [] p = "set_a" -> <<Set("a", 1)>>
      [] p = "scope_rearm" -> <<CreateEffect("rearm")>>
      \* on_cleanup(|| { b.set(1); c.set(1) }); if c.get_untracked() == 0 { b.get(); }
      [] p = "flagged" -> <<OnCleanup("set_b_c"), GetUntracked("c"), IfEq(0, 1), Get("b")>>
      [] p = "set_b_c" -> <<Set("b", 1), Set("c", 1)>>
      \* a.get(); if flag == 0 { b.get(); flag = 1; a.set(1) }
      [] p = "self_write" ->
            <<Get("a"), GetUntracked("c"), IfEq(0, 3), Get("b"), Set("c", 1), Set("a", 1)>>
      \* untrack(|| a.get()); create_scope(|| create_effect(read_a)); b.get();
      [] p = "nesting" -> <<Untrack("read_a"), CreateScope("scope_body", "x"), Get("b")>>
      \* reads that are not tracked: in a scope, under untrack, get_untracked
      [] p = "quiet_scope" -> <<Get("a"), GetUntracked("b"), CreateEffect("quiet")>>
      [] p = "quiet" -> <<Get("b"), Untrack("read_a"), GetUntracked("c")>>
      \* a.get().max(b.get())
      [] p = "max_ab" -> <<Get("a"), GetMax("b")>>
      [] p = "read_m" -> <<Get("m")>>
      [] p = "read_am" -> <<Get("a"), Get("m")>>
      [] p = "read_c" -> <<Get("c")>>
      \* provide_context::<T1>(a.get()); use_context::<T1>(); use_context::<T2>();
      [] p = "ctx_effect" ->
            <<Get("a"), ProvideLast("T1"), UseContext("T1"), UseContext("T2"),
              CreateScope("ctx_leaf", "x")>>
      [] p = "ctx_leaf" -> <<UseContext("T1"), UseContext("T2"), CreateEffect("ctx_reader")>>
      [] p = "ctx_reader" -> <<Get("b"), UseContext("T1"), UseContext("T2")>>
      [] p = "ctx_outer" ->
            <<ProvideContext("T1", 0), UseContext("T2"), GetUntracked("c"), ProvideLast("T2"),
              CreateEffect("ctx_effect"), UseContext("T1"), CreateEffect("ctx_reader"),
              Get("c"), ProvideLast("T2"), UseContext("T2")>>
      [] p = "ctx_twice" ->
            <<ProvideContext("T1", 0), ProvideContext("T1", 1), UseContext("T1"),
              CreateScope("ctx_leaf", "x"), Untrack("ctx_leaf")>>
      \* provide_context called with no owner: at top level and under untrack
      [] p = "ctx_untracked" -> <<ProvideContext("T1", 1), UseContext("T1")>>
      [] p = "ctx_none_scope" ->
            <<ProvideContext("T2", 0), Untrack("ctx_untracked"), UseContext("T1"),
              CreateEffect("ctx_reader")>>
      [] p = "main_ctx_none" ->
            <<CreateSignal("a", 0), CreateSignal("b", 0), CreateSignal("c", 1),
              ProvideContext("T1", 1), UseContext("T1"), CreateScope("ctx_none_scope", "x"),
              ProvideContext("T2", 1), UseContext("T2")>>
      \* programs that keep handles of removed nodes
      [] p = "arena_scope" -> <<CreateSignal("b", 0), CreateEffect("read_ab")>>
      [] p = "read_bc" -> <<Get("b"), Get("c")>>
      [] p = "maker" ->
            <<Get("a"), CreateSignal("c", 0), GetUntracked("b"), CreateEffect("read_bc"),
              Set("b", 1)>>
      [] p = "grower" ->
            <<Get("a"), IfEq(1, 3), CreateSignal("c", 0), CreateEffect("read_bc"),
              CreateSignal("c", 1), Get("b")>>
      \* the keyed list's items getter, and its map function with the mount of
      \* the row's view
      [] p = "items_fn" -> <<Get("items")>>
      [] p = "row" -> <<CreateSignal("c", 0), CreateEffect("read_c"), OnCleanup("row_cleanup")>>
      [] p = "row_cleanup" -> <<GetUntracked("b")>>
      \* the programs' set-up, run at top level
      [] p = "main_basic" ->
            <<CreateSignal("a", 0), CreateSignal("b", 0), CreateSignal("c", 0),
              CreateEffect("read_aa"), CreateEffect("read_ab"), CreateEffect("branch")>>
      [] p = "main_cascade" ->
            <<CreateSignal("a", 0), CreateSignal("b", 0), CreateSignal("c", 0),
              CreateEffect("a_to_b"), CreateEffect("read_ab")>>
      [] p = "main_parent_first" ->
            <<CreateSignal("a", 0), CreateSignal("b", 0), CreateSignal("c", 0),
              CreateEffect("parent_first")>>
      [] p = "main_child_first" ->
            <<CreateSignal("a", 0), CreateSignal("b", 0), CreateSignal("c", 0),
              CreateEffect("child_first")>>
      [] p = "main_scope" ->
            <<CreateSignal("a", 0), CreateSignal("b", 0), CreateSignal("c", 0),
              CreateScope("scope_body", "x")>>
      [] p = "main_rearm" ->
            <<CreateSignal("a", 0), CreateSignal("b", 0), CreateSignal("c", 0),
              CreateScope("scope_rearm", "x")>>
      [] p = "main_flagged" ->
            <<CreateSignal("a", 0), CreateSignal("b", 0), CreateSignal("c", 0),
              CreateEffect("flagged")>>
      [] p = "main_self_write" ->
            <<CreateSignal("a", 0), CreateSignal("b", 0), CreateSignal("c", 0),
              CreateEffect("self_write")>>
      [] p = "main_nesting" ->
            <<CreateSignal("a", 0), CreateSignal("b", 0), CreateSignal("c", 0),
              CreateEffect("nesting")>>
      [] p = "main_untracked" ->
            <<CreateSignal("a", 0), CreateSignal("b", 0), CreateSignal("c", 0),
              CreateEffect("read_a"), CreateScope("quiet_scope", "x"), Get("a")>>
      [] p = "main_memo" ->
            <<CreateSignal("a", 0), CreateSignal("b", 0), CreateSignal("c", 0),
              CreateMemo("max_ab", "m"), CreateEffect("read_m"), CreateEffect("read_c")>>
      [] p = "main_memo_diamond" ->
            <<CreateSignal("a", 0), CreateSignal("b", 0), CreateSignal("c", 0),
              CreateMemo("max_ab", "m"), CreateEffect("read_am"), CreateEffect("read_m")>>
      \* c.get(); let m = create_memo(|| a.get().max(b.get())); create_effect(|| m.get());
      [] p = "memo_owner" -> <<Get("c"), CreateMemo("max_ab", "m"), CreateEffect("read_m")>>
      \* a.get(); let m = create_memo(|| a.get().max(b.get()));
      [] p = "memo_owner_reads" -> <<Get("a"), CreateMemo("max_ab", "m")>>
      \* m.get().max(c.get())
      [] p = "max_mc" -> <<Get("m"), GetMax("c")>>
      [] p = "read_n" -> <<Get("n")>>
      \* let m = create_memo(|| a.get().max(b.get()));
      \* let n = create_memo(move || m.get().max(c.get()));
      [] p = "main_memo_chain" ->
            <<CreateSignal("a", 0), CreateSignal("b", 0), CreateSignal("c", 0),
              CreateMemo("max_ab", "m"), CreateMemo("max_mc", "n"), CreateEffect("read_n")>>
      [] p = "main_memo_owner" ->
            <<CreateSignal("a", 0), CreateSignal("b", 0), CreateSignal("c", 0),
              CreateEffect("memo_owner")>>
      [] p = "main_memo_owner_reads" ->
            <<CreateSignal("a", 0), CreateSignal("b", 0), CreateSignal("c", 0),
              CreateEffect("memo_owner_reads")>>
      \* if a.get() == 1 { dispose(x) }; create_signal(0); create_effect(read_c);
      \* x is the scope the effect was created in.
      [] p = "self_dispose" ->
            <<Get("a"), IfEq(1, 1), Dispose("x"), CreateSignal("c", 0), CreateEffect("read_c")>>
      [] p = "self_dispose_scope" -> <<CreateEffect("self_dispose")>>
      [] p = "main_self_dispose" ->
            <<CreateSignal("a", 0), CreateSignal("b", 0),
              CreateScope("self_dispose_scope", "x")>>
      \* if b.get_untracked() == 0 { b.set(1); a.set(1) }; create_signal(0);
      \* the effect's parent reads a.
      [] p = "self_rewrite" ->
            <<GetUntracked("b"), IfEq(0, 2), Set("b", 1), Set("a", 1), CreateSignal("c", 0)>>
      [] p = "rewrite_parent" -> <<Get("a"), CreateEffect("self_rewrite")>>
      [] p = "rewrite_scope" -> <<CreateEffect("rewrite_parent")>>
      [] p = "main_self_rewrite" ->
            <<CreateSignal("a", 0), CreateSignal("b", 0),
              CreateScope("rewrite_scope", "x")>>
      \* if a.get() == 0 { provide_context::<T1>(1) }; create_scope(ctx_leaf);
      [] p = "ctx_once" ->
            <<Get("a"), IfEq(0, 1), ProvideContext("T1", 1), CreateScope("ctx_leaf", "y")>>
      [] p = "main_ctx_once" ->
            <<CreateSignal("a", 0), CreateSignal("b", 0), CreateSignal("c", 1),
              CreateEffect("ctx_once")>>
      [] p = "main_ctx" ->
            <<CreateSignal("a", 0), CreateSignal("b", 0), CreateSignal("c", 1),
              UseContext("T1"), CreateScope("ctx_outer", "x"), UseContext("T1")>>
      [] p = "main_ctx_twice" ->
            <<CreateSignal("a", 0), CreateSignal("b", 0), CreateSignal("c", 1),
              CreateScope("ctx_twice", "x"), CreateEffect("ctx_effect")>>
      [] p = "main_arena" ->
            <<CreateSignal("a", 0), CreateScope("arena_scope", "x"), CreateEffect("maker")>>
      [] p = "main_arena_late" ->
            <<CreateSignal("a", 0), CreateScope("arena_scope", "x"), CreateEffect("grower")>>
      [] p = "main_for" ->
            <<CreateSignal("items", <<"A", "B", "C">>), CreateSignal("b", 0), MountFor>>
      [] p = "main_for_empty" ->
            <<CreateSignal("items", <<>>), CreateSignal("b", 0), MountFor>>
      [] p = "alive_off" -> <<AliveOff>>
      \* let ctx = SuspenseContext::new(); provide_context(ctx);
      \* create_resource(|| a.get(), fetcher)
      [] p = "suspense_scope" ->
            <<CreateSignal("count", Zero), ProvideHandle(SuspenseType, "count"),
              CreateResource("read_a"), CreateEffect("watch")>>
      \* resource.get(); resource.loading(); count.get();
      [] p = "watch" -> <<Get("data"), Get("loading"), Get("count")>>
      [] p = "resource_scope" -> <<CreateResource("read_a")>>
      \* The shape of Suspense::mount: the scope provides the counter, an effect
      \* reads it, and the content creates its resource in a scope of its own.
      [] p = "suspense_outer" ->
            <<CreateSignal("count", Zero), ProvideHandle(SuspenseType, "count"),
              CreateEffect("read_count"), CreateScope("resource_scope", "y")>>
      [] p = "read_count" -> <<Get("count")>>
      \* A suspense counter at 0, at 1, and after usize::MAX - 1 increments.
      [] p = "counter_zero" ->
            <<CreateSignal("count", Zero), ProvideHandle(SuspenseType, "count"),
              CreateEffect("read_count")>>
      [] p = "counter_one" ->
            <<CreateSignal("count", usize(1)), ProvideHandle(SuspenseType, "count"),
              CreateEffect("read_count")>>
      [] p = "counter_high" ->
            <<CreateSignal("count", pred(UsizeMax)), ProvideHandle(SuspenseType, "count"),
              CreateEffect("read_count")>>
      [] p = "main_counter_zero" -> <<CreateScope("counter_zero", "x")>>
      [] p = "main_counter_one" -> <<CreateScope("counter_one", "x")>>
      [] p = "main_counter_high" -> <<CreateScope("counter_high", "x")>>
      \* An effect that reads the signal its resource's source reads.
      [] p = "owner_reads" -> <<Get("a"), CreateResource("read_a")>>
      [] p = "main_resource_owner" -> <<CreateSignal("a", 0), CreateEffect("owner_reads")>>
      [] p = "main_suspense_nested" ->
            <<CreateSignal("a", 0), CreateScope("suspense_outer", "x")>>
      [] p = "main_resource_root" -> <<CreateSignal("a", 0), CreateResource("read_a")>>
      [] p = "main_resource" ->
            <<CreateSignal("a", 0), CreateScope("resource_scope", "x")>>
      \* a.get(); create_resource(|| b.get(), fetcher); on_cleanup(|| a.set(1));
      [] p = "rearm_resource" ->
            <<Get("a"), CreateResource("read_b"), OnCleanup("set_a")>>
      [] p = "read_b" -> <<Get("b")>>
      [] p = "rearm_resource_scope" -> <<CreateEffect("rearm_resource")>>
      [] p = "main_resource_rearm" ->
            <<CreateSignal("a", 0), CreateSignal("b", 0),
              CreateScope("rearm_resource_scope", "x")>>
      [] p = "main_suspense" ->
            <<CreateSignal("a", 0), CreateScope("suspense_scope", "x")>>
      [] OTHER -> <<>>

ResourceScenarios ==
    {"main_resource_root", "main_resource", "main_suspense", "main_suspense_nested",
     "main_resource_owner"}

CounterScenarios == {"main_counter_zero", "main_counter_one", "main_counter_high"}

\* A resource whose owner has a cleanup that writes a signal the owner reads.
DiscardScenarios == {"main_resource_rearm"}

\* An effect whose body disposes the effect itself, by a dispose or by a
\* write that re-runs its parent, and goes on creating nodes.
OrphanScenarios == {"main_self_dispose", "main_self_rewrite"}

ArenaScenarios == {"main_arena", "main_arena_late"}

ForScenarios == {"main_for", "main_for_empty"}

MemoScenarios == {"main_memo", "main_memo_diamond"}

\* Memos created by an effect, and a memo that reads a memo.
MemoOwnerScenarios == {"main_memo_owner", "main_memo_owner_reads", "main_memo_chain"}

CtxScenarios == {"main_ctx", "main_ctx_twice", "main_ctx_none", "main_ctx_once"}

Scenarios ==
    {"main_basic", "main_cascade", "main_parent_first", "main_child_first", "main_scope",
     "main_rearm", "main_flagged", "main_self_write", "main_nesting", "main_untracked"}

----------------------------------------------------------------------------
\* The machine state as one record, so that the runtime's functions compose.

State ==
    [nodes |-> nodes, versions |-> versions, free |-> free,
     current_owner |-> current_owner, stack |-> stack, reg |-> reg,
     active_rows |-> active_rows, root |-> root, elements |-> elements,
     alive |-> alive, tasks |-> tasks, overflow_checks |-> overflow_checks, hist |-> hist]

Commit(m) ==
    /\ nodes' = m.nodes
    /\ versions' = m.versions
    /\ free' = m.free
    /\ current_owner' = m.current_owner
    /\ stack' = m.stack
    /\ reg' = m.reg
    /\ active_rows' = m.active_rows
    /\ root' = m.root
    /\ elements' = m.elements
    /\ alive' = m.alive
    /\ tasks' = m.tasks
    /\ hist' = m.hist

Push(m, f) == [m EXCEPT !.stack = <<f>> \o @]
Pop(m) == [m EXCEPT !.stack = Tail(@)]

\* A closure being executed; `own` notes the owner at its call, `env` is the
\* variable the closure captured, `res` the Result returned by its last call.
BodyFrame(p, own) ==
    [k |-> "body", p |-> p, pc |-> 1, val |-> NoValue, own |-> own, env |-> 0, res |-> "none"]

Live(ns, id) == id \in DOMAIN ns

----------------------------------------------------------------------------
\* The arena (SlotMap<NodeId, Node>)

\* A SlotMap that hands a freed slot out again under the version it had.
new_key_same_version(m) ==
    IF m.free # <<>>
    THEN [idx |-> Head(m.free), version |-> m.versions[Head(m.free)]]
    ELSE [idx |-> Len(m.versions) + 1, version |-> 1]

\* SlotMap::insert: the most recently freed slot is reused under its next
\* version; with no free slot a new one is appended.
new_key(m) ==
    IF m.free # <<>>
    THEN [idx |-> Head(m.free), version |-> m.versions[Head(m.free)] + 1]
    ELSE [idx |-> Len(m.versions) + 1, version |-> 1]

slot_insert(m, id, node) ==
    [m EXCEPT !.nodes = (id :> node) @@ @,
              !.versions = IF id.idx <= Len(@) THEN [@ EXCEPT ![id.idx] = id.version]
                           ELSE Append(@, id.version),
              !.free = IF @ # <<>> THEN Tail(@) ELSE @]

\* A remove that frees the slot of a key that is not live as well.
slot_remove_unchecked(m, id) ==
    [m EXCEPT !.nodes = [k \in DOMAIN @ \ {id} |-> @[k]],
              !.free = <<id.idx>> \o @]

\* SlotMap::remove: nothing happens for a key that is not live.
slot_remove(m, id) ==
    IF Live(m.nodes, id)
    THEN [m EXCEPT !.nodes = [k \in DOMAIN @ \ {id} |-> @[k]],
                   !.free = <<id.idx>> \o @]
    ELSE m

\* A registration that links the new node to the root-most ancestor of the
\* current owner instead of the current owner.
register_node_under_root(m, kind) ==
    LET owner == m.current_owner
        parent == IF owner # None /\ Live(m.nodes, owner) /\ m.nodes[owner].parent # None
                  THEN m.nodes[owner].parent ELSE owner
        id == new_key(m)
        m1 == slot_insert(m, id, [new_node(kind) EXCEPT !.parent = parent])
        m2 == IF parent # None /\ Live(m1.nodes, parent)
              THEN [m1 EXCEPT !.nodes[parent].children = Append(@, id)]
              ELSE m1
    IN [m2 EXCEPT !.hist.parent_of = (id :> owner) @@ @]

\* Runtime::register_node_internal; the new node's id is new_key(m).  The
\* history keeps the owner that was current at the registration.
register_node_internal(m, kind) ==
    LET parent == m.current_owner
        id == new_key(m)
        m1 == slot_insert(m, id, [new_node(kind) EXCEPT !.parent = parent])
        m2 == IF parent # None /\ Live(m1.nodes, parent)
              THEN [m1 EXCEPT !.nodes[parent].children = Append(@, id)]
              ELSE m1
    IN [m2 EXCEPT !.hist.parent_of = (id :> m.current_owner) @@ @]

\* Runtime::register_signal
register_signal(m, value) ==
    LET id == new_key(m)
        m1 == register_node_internal(m, "Signal")
    IN [m1 EXCEPT !.nodes[id].value = <<value>>]

----------------------------------------------------------------------------
\* Dependency tracking

\* track_dependency without the contains() tests: a multiset of edges.
track_dependency_no_dedup(ns, owner, signal_id) ==
    IF owner = None THEN ns
    ELSE IF owner = signal_id THEN ns
    ELSE IF ~(Live(ns, owner) /\ Live(ns, signal_id)) THEN ns
    ELSE IF ns[owner].kind # "Effect" THEN ns
    ELSE [ns EXCEPT ![owner].dependencies = Append(@, signal_id),
                    ![signal_id].subscribers = Append(@, owner)]

\* track_dependency without the test of the owner's kind: a scope subscribes.
track_dependency_any_kind(ns, owner, signal_id) ==
    IF owner = None THEN ns
    ELSE IF owner = signal_id THEN ns
    ELSE IF ~(Live(ns, owner) /\ Live(ns, signal_id)) THEN ns
    ELSE LET ns1 == IF ~contains(ns[owner].dependencies, signal_id)
                    THEN [ns EXCEPT ![owner].dependencies = Append(@, signal_id)]
                    ELSE ns
         IN IF ~contains(ns1[signal_id].subscribers, owner)
            THEN [ns1 EXCEPT ![signal_id].subscribers = Append(@, owner)]
            ELSE ns1

\* track_dependency without the contains() test on the subscriber list.
track_dependency_dup_subscriber(ns, owner, signal_id) ==
    IF owner = None THEN ns
    ELSE IF owner = signal_id THEN ns
    ELSE IF ~(Live(ns, owner) /\ Live(ns, signal_id)) THEN ns
    ELSE IF ns[owner].kind # "Effect" THEN ns
    ELSE LET ns1 == IF ~contains(ns[owner].dependencies, signal_id)
                    THEN [ns EXCEPT ![owner].dependencies = Append(@, signal_id)]
                    ELSE ns
         IN [ns1 EXCEPT ![signal_id].subscribers = Append(@, owner)]

\* Runtime::track_dependency, on the node map.
track_dependency(ns, owner, signal_id) ==
    IF owner = None THEN ns
    ELSE IF owner = signal_id THEN ns
    ELSE IF ~(Live(ns, owner) /\ Live(ns, signal_id)) THEN ns
    ELSE IF ns[owner].kind # "Effect" THEN ns
    ELSE LET ns1 == IF ~contains(ns[owner].dependencies, signal_id)
                    THEN [ns EXCEPT ![owner].dependencies = Append(@, signal_id)]
                    ELSE ns
         IN IF ~contains(ns1[signal_id].subscribers, owner)
            THEN [ns1 EXCEPT ![signal_id].subscribers = Append(@, owner)]
            ELSE ns1

\* Runtime::get_dependents
get_dependents(ns, signal_id) ==
    IF Live(ns, signal_id) THEN ns[signal_id].subscribers ELSE <<>>

\* A lookup by slot index alone: the version of the handle is not compared.
get_untracked_internal_any_version(ns, id) ==
    IF \E x \in DOMAIN ns : x.idx = id.idx /\ ns[x].value # <<>>
    THEN ns[CHOOSE x \in DOMAIN ns : x.idx = id.idx].value[1]
    ELSE NoValue

\* ReadSignal::get_untracked_internal
get_untracked_internal(ns, id) ==
    IF Live(ns, id) /\ ns[id].value # <<>> THEN ns[id].value[1] ELSE NoValue

\* run_cleanups forgetting step 3: the old edges stay.
unsubscribe_none(ns, self_id, dependencies) == ns

\* Step 3 of Runtime::run_cleanups: remove self_id from the subscriber list of
\* every signal of `dependencies`.
RECURSIVE unsubscribe(_, _, _)
unsubscribe(ns, self_id, dependencies) ==
    IF dependencies = <<>> THEN ns
    ELSE LET signal_id == Head(dependencies)
             idx == IF Live(ns, signal_id) THEN position(ns[signal_id].subscribers, self_id) ELSE 0
             ns1 == IF idx # 0
                    THEN [ns EXCEPT ![signal_id].subscribers = swap_remove(@, idx)]
                    ELSE ns
         IN unsubscribe(ns1, self_id, Tail(dependencies))

----------------------------------------------------------------------------
\* History kept for the claims

\* The frames of kind k on the stack, as indices.
FramesOf(st, k) == {i \in 1..Len(st) : st[i].k = k}

\* The run of `id` whose body is executing: the topmost run_effect frame of id.
TopRunOf(st, id) ==
    IF \E i \in FramesOf(st, "run_effect") : st[i].effect_id = id
    THEN CHOOSE i \in FramesOf(st, "run_effect") :
            /\ st[i].effect_id = id
            /\ \A j \in FramesOf(st, "run_effect") : st[j].effect_id = id => i <= j
    ELSE 0

RECURSIVE AncestorsIn(_, _)
AncestorsIn(parent_of, id) ==
    IF id = None \/ id \notin DOMAIN parent_of \/ parent_of[id] = None THEN {}
    ELSE {parent_of[id]} \cup AncestorsIn(parent_of, parent_of[id])

\* A tracked read of signal_id by the current owner is noted in the run that
\* is executing; a subscription that is new while a write to the same signal
\* is being flushed, and is not in that write's snapshot, is noted in `late`.
NoteRead(m, before, signal_id) ==
    LET owner == m.current_owner
        i == TopRunOf(m.stack, owner)
        m1 == IF owner # None /\ i # 0 /\ Live(before, signal_id)
              THEN [m EXCEPT !.stack[i].reads = @ \cup {signal_id}]
              ELSE m
        isNew == /\ Live(m.nodes, signal_id)
                 /\ contains(m.nodes[signal_id].subscribers, owner)
                 /\ ~contains(before[signal_id].subscribers, owner)
        flushing == \E j \in FramesOf(m.stack, "update") :
                        /\ m.stack[j].signal_id = signal_id
                        /\ ~contains(m.stack[j].snap, owner)
        m2 == IF owner # None
              THEN [m1 EXCEPT !.hist.seen =
                                  (owner :> get_untracked_internal(m.nodes, signal_id)) @@ @]
              ELSE m1
    IN IF isNew /\ flushing
       THEN [m2 EXCEPT !.hist.late = @ \cup {<<signal_id, owner>>}]
       ELSE m2

\* The body of effect_id starts: every write being flushed notes it.
NoteBodyStart(st, effect_id) ==
    [i \in 1..Len(st) |->
        IF st[i].k = "update" THEN [st[i] EXCEPT !.all = Append(@, effect_id)] ELSE st[i]]

\* run_effect(effect_id) is entered while earlier runs of it are on the stack.
NoteReentered(st, effect_id) ==
    [i \in 1..Len(st) |->
        IF st[i].k = "run_effect" /\ st[i].effect_id = effect_id
        THEN [st[i] EXCEPT !.reentered = TRUE] ELSE st[i]]

----------------------------------------------------------------------------
\* The runtime's functions.  Each returns the machine after the call has run
\* up to its first call of a closure; the rest of the function is its frame.

\* Runtime::clean_node: take children, cleanups and dependencies, then
\* run_cleanups.
clean_node(m, id) ==
    IF ~Live(m.nodes, id) THEN m
    ELSE LET n == m.nodes[id]
             m1 == [m EXCEPT !.nodes[id].children = <<>>,
                             !.nodes[id].cleanups = <<>>,
                             !.nodes[id].dependencies = <<>>]
         IN Push(m1, [k |-> "run_cleanups", self_id |-> id, children |-> n.children,
                      cleanups |-> n.cleanups, dependencies |-> n.dependencies])

\* Runtime::dispose_node: clean_node first; the frame below does the removal.
dispose_node(m, id, remove_from_parent, api) ==
    clean_node(Push(m, [k |-> "dispose_node", id |-> id,
                        remove_from_parent |-> remove_from_parent, api |-> api]), id)

\* A run_effect whose clean step takes the node's context map as well.
run_effect_clear_context(m, effect_id, by) ==
    IF ~Live(m.nodes, effect_id) THEN m
    ELSE LET n == m.nodes[effect_id]
             m1 == [m EXCEPT !.nodes[effect_id].children = <<>>,
                             !.nodes[effect_id].cleanups = <<>>,
                             !.nodes[effect_id].dependencies = <<>>,
                             !.nodes[effect_id].context = <<>>,
                             !.stack = NoteReentered(@, effect_id)]
             m2 == Push(m1, [k |-> "run_effect", effect_id |-> effect_id,
                             computation |-> n.computation, stage |-> "clean",
                             prev_owner |-> None, by |-> by,
                             owner_at_call |-> m.current_owner,
                             reads |-> {},
                             reentered |-> TopRunOf(m.stack, effect_id) # 0,
                             leak |-> FALSE])
         IN Push(m2, [k |-> "run_cleanups", self_id |-> effect_id, children |-> n.children,
                      cleanups |-> n.cleanups, dependencies |-> n.dependencies])

\* A run_effect that treats a missing node as an effect without computation
\* instead of returning at once.
run_effect_no_check(m, effect_id, by) ==
    LET n == IF Live(m.nodes, effect_id) THEN m.nodes[effect_id] ELSE new_node("Effect")
        m1 == IF Live(m.nodes, effect_id)
              THEN [m EXCEPT !.nodes[effect_id].children = <<>>,
                             !.nodes[effect_id].cleanups = <<>>,
                             !.nodes[effect_id].dependencies = <<>>,
                             !.stack = NoteReentered(@, effect_id)]
              ELSE m
        m2 == Push(m1, [k |-> "run_effect", effect_id |-> effect_id,
                        computation |-> n.computation, stage |-> "clean",
                        prev_owner |-> None, by |-> by,
                        owner_at_call |-> m.current_owner,
                        reads |-> {},
                        reentered |-> TopRunOf(m.stack, effect_id) # 0,
                        leak |-> FALSE])
    IN Push(m2, [k |-> "run_cleanups", self_id |-> effect_id, children |-> n.children,
                 cleanups |-> n.cleanups, dependencies |-> n.dependencies])

\* run_effect: a missing node returns at once; otherwise the computation and
\* the lists to clean are taken and run_cleanups runs before the body.
run_effect(m, effect_id, by) ==
    IF ~Live(m.nodes, effect_id) THEN m
    ELSE LET n == m.nodes[effect_id]
             m1 == [m EXCEPT !.nodes[effect_id].children = <<>>,
                             !.nodes[effect_id].cleanups = <<>>,
                             !.nodes[effect_id].dependencies = <<>>,
                             !.stack = NoteReentered(@, effect_id)]
             m2 == Push(m1, [k |-> "run_effect", effect_id |-> effect_id,
                             computation |-> n.computation, stage |-> "clean",
                             prev_owner |-> None, by |-> by,
                             owner_at_call |-> m.current_owner,
                             reads |-> {},
                             reentered |-> TopRunOf(m.stack, effect_id) # 0,
                             leak |-> FALSE])
         IN Push(m2, [k |-> "run_cleanups", self_id |-> effect_id, children |-> n.children,
                      cleanups |-> n.cleanups, dependencies |-> n.dependencies])

\* The value an op leaves in the closure that made it (a local variable).
SetVal(m, v) ==
    IF m.stack # <<>> /\ Head(m.stack).k = "body" THEN [m EXCEPT !.stack[1].val = v] ELSE m

\* create_signal
create_signal(m, r, value) ==
    LET id == new_key(m) IN
    [register_signal(m, value) EXCEPT !.reg[r] = id]

\* ReadSignal::get
get(m, r) ==
    LET id == m.reg[r]
        m1 == [m EXCEPT !.nodes = track_dependency(@, m.current_owner, id)]
    IN SetVal(NoteRead(m1, m.nodes, id), get_untracked_internal(m1.nodes, id))

\* ReadSignal::get_untracked
get_untracked(m, r) == SetVal(m, get_untracked_internal(m.nodes, m.reg[r]))

\* A write that runs the subscribers and leaves the old value in place.
update_no_write(m, id, v) ==
    IF ~Live(m.nodes, id) \/ m.nodes[id].value = <<>> THEN m
    ELSE Push(m, [k |-> "update", signal_id |-> id,
                  effects_to_run |-> get_dependents(m.nodes, id),
                  snap |-> m.nodes[id].subscribers, direct |-> <<>>, all |-> <<>>,
                  skipped |-> {}, owed |-> {}, owner_at_call |-> m.current_owner,
                  old |-> m.nodes[id].value[1], new |-> v, order |-> <<>>,
                  live |-> DOMAIN m.nodes, fetched |-> Len(m.hist.fetches),
                  before |-> [s \in {x \in DOMAIN m.nodes : m.nodes[x].kind = "Signal"} |->
                                m.nodes[s].value]])

\* A write that runs no subscriber when the value written is the value held.
update_if_changed(m, id, v) ==
    IF ~Live(m.nodes, id) \/ m.nodes[id].value = <<>> THEN m
    ELSE IF m.nodes[id].value = <<v>> THEN m
    ELSE LET m1 == [m EXCEPT !.nodes[id].value = <<v>>]
         IN Push(m1, [k |-> "update", signal_id |-> id,
                      effects_to_run |-> get_dependents(m1.nodes, id),
                      snap |-> m.nodes[id].subscribers, direct |-> <<>>, all |-> <<>>,
                      skipped |-> {}, owed |-> {}, owner_at_call |-> m.current_owner,
                      old |-> m.nodes[id].value[1], new |-> v, order |-> <<>>,
                      live |-> DOMAIN m.nodes, fetched |-> Len(m.hist.fetches),
                      before |-> [s \in {x \in DOMAIN m.nodes : m.nodes[x].kind = "Signal"} |->
                                    m.nodes[s].value]])

\* WriteSignal::update (set(v) is update(|x| *x = v)): a dropped signal
\* returns before the mutator; otherwise the value is written, the
\* subscribers are cloned and the frame runs them.
update(m, id, v) ==
    IF ~Live(m.nodes, id) \/ m.nodes[id].value = <<>> THEN m
    ELSE LET m1 == [m EXCEPT !.nodes[id].value = <<v>>]
             effects_to_run == get_dependents(m1.nodes, id)
             owed == {e \in DOMAIN m.hist.parent_of : <<id, e>> \in m.hist.late}
             m2 == [m1 EXCEPT !.hist.late = {pr \in @ : pr[1] # id}]
         IN Push(m2, [k |-> "update", signal_id |-> id, effects_to_run |-> effects_to_run,
                      snap |-> m.nodes[id].subscribers, direct |-> <<>>, all |-> <<>>,
                      skipped |-> {}, owed |-> owed,
                      owner_at_call |-> m.current_owner,
                      old |-> m.nodes[id].value[1], new |-> v,
                      order |-> IF id \in DOMAIN m.hist.order THEN m.hist.order[id] ELSE <<>>,
                      live |-> DOMAIN m.nodes, fetched |-> Len(m.hist.fetches),
                      before |-> [s \in {x \in DOMAIN m.nodes : m.nodes[x].kind = "Signal"} |->
                                    m.nodes[s].value]])

\* create_effect: register the node, store the closure, run it.
create_effect(m, computation) ==
    LET id == new_key(m)
        m1 == register_node_internal(m, "Effect")
        m2 == [m1 EXCEPT !.nodes[id].computation = computation]
    IN run_effect(m2, id, "create_effect")

\* create_scope: register the node, make it the owner, call the body.
create_scope(m, p, r) ==
    LET id == new_key(m)
        m1 == register_node_internal(m, "Scope")
        m2 == [m1 EXCEPT !.current_owner = id]
        m3 == Push(m2, [k |-> "create_scope", id |-> id, prev_owner |-> m.current_owner,
                        owner_at_call |-> m.current_owner, r |-> r])
    IN Push(m3, BodyFrame(p, m3.current_owner))

\* dispose
dispose(m, id) == dispose_node(m, id, TRUE, TRUE)

\* on_cleanup: with no owner, or an owner that is gone, the callback is dropped.
\* The history numbers the registrations and counts each callback's calls.
on_cleanup(m, f) ==
    LET tok == Len(m.hist.callbacks) + 1
        m1 == [m EXCEPT !.hist.callbacks = Append(@, [owner |-> m.current_owner, calls |-> 0])]
    IN IF m.current_owner # None /\ Live(m.nodes, m.current_owner)
       THEN [m1 EXCEPT !.nodes[m.current_owner].cleanups =
                           Append(@, [p |-> f.p, tok |-> tok, cap |-> f.cap])]
       ELSE m1

\* untrack: the owner is None while f runs.
untrack(m, p) ==
    LET m1 == Push([m EXCEPT !.current_owner = None],
                   [k |-> "untrack", prev_owner |-> m.current_owner,
                    owner_at_call |-> m.current_owner])
    IN Push(m1, BodyFrame(p, m1.current_owner))

\* A create_memo whose first evaluation of f runs under the caller's owner.
create_memo_tracked(m, f, r) ==
    LET m1 == Push(m, [k |-> "create_memo", f |-> f, r |-> r, prev_owner |-> m.current_owner,
                       ret |-> NoValue])
    IN Push(m1, BodyFrame(f, m1.current_owner))

\* create_memo: the first evaluation of f runs under untrack.
create_memo(m, f, r) ==
    LET m1 == Push([m EXCEPT !.current_owner = None],
                   [k |-> "create_memo", f |-> f, r |-> r, prev_owner |-> m.current_owner,
                    ret |-> NoValue])
    IN Push(m1, BodyFrame(f, m1.current_owner))

\* create_memo after the untracked f(): restore the owner, create the backing
\* signal with the value, create the effect that recomputes, return `read`.
create_memo_finish(m) ==
    LET f == Head(m.stack)
        m1 == Pop([m EXCEPT !.current_owner = f.prev_owner])
        id == new_key(m1)
        m2 == [register_signal(m1, f.ret) EXCEPT !.reg[f.r] = id]
    IN create_effect(m2, [p |-> "memo", f |-> f.f, read |-> id])

\* A memo that writes its signal on every recomputation.
memo_changed_always(old_value, new_value) == old_value # NoValue

\* A memo that writes its signal only when the new value is greater.
memo_changed_greater(old_value, new_value) == old_value # NoValue /\ new_value > old_value

\* The test of the memo's effect: `if let Some(old) = read.get_untracked() &&
\* new_value != old_value`.
memo_changed(old_value, new_value) == old_value # NoValue /\ new_value # old_value

\* The body of the memo's effect after f(): write.set(new_value) when changed.
memo_body_finish(m) ==
    LET f == Head(m.stack)
        old_value == get_untracked_internal(m.nodes, f.read)
    IN IF f.stage = "written" THEN Pop(m)
       ELSE IF memo_changed(old_value, f.ret)
       THEN update([m EXCEPT !.stack[1].stage = "written"], f.read, f.ret)
       ELSE Pop(m)

\* The Result an op returns to the closure that made it.
SetRes(m, r) ==
    IF m.stack # <<>> /\ Head(m.stack).k = "body" THEN [m EXCEPT !.stack[1].res = r] ELSE m

\* provide_context returning Ok(()) when there is no owner.
provide_context_silent(m, t, value) ==
    IF m.current_owner # None /\ Live(m.nodes, m.current_owner)
    THEN SetRes([m EXCEPT !.nodes[m.current_owner].context = (t :> value) @@ @,
                          !.hist.provided = (<<m.current_owner, t>> :> value) @@ @], "Ok")
    ELSE SetRes(m, "Ok")

\* provide_context::<t>(value): Err without a current owner or with an owner
\* that is gone.
provide_context(m, t, value) ==
    IF m.current_owner # None /\ Live(m.nodes, m.current_owner)
    THEN SetRes([m EXCEPT !.nodes[m.current_owner].context = (t :> value) @@ @,
                          !.hist.provided = (<<m.current_owner, t>> :> value) @@ @], "Ok")
    ELSE SetRes(m, "Err")

\* The loop started at the root-most ancestor: the farthest provider wins.
RECURSIVE use_context_farthest(_, _, _)
use_context_farthest(ns, current, t) ==
    IF current = None THEN NoValue
    ELSE IF ~Live(ns, current) THEN NoValue
    ELSE LET up == use_context_farthest(ns, ns[current].parent, t) IN
         IF up # NoValue THEN up
         ELSE IF t \in DOMAIN ns[current].context THEN ns[current].context[t]
         ELSE NoValue

\* The loop of use_context, from node `current`.
RECURSIVE use_context_from(_, _, _)
use_context_from(ns, current, t) ==
    IF current = None THEN NoValue
    ELSE IF ~Live(ns, current) THEN NoValue
    ELSE IF t \in DOMAIN ns[current].context THEN ns[current].context[t]
    ELSE use_context_from(ns, ns[current].parent, t)

\* use_context::<t>()
use_context(m, t) == SetVal(m, use_context_from(m.nodes, m.current_owner, t))

----------------------------------------------------------------------------
\* Resources (create_resource) and the suspense counter

\* A signal handle as a context value: SuspenseContext holds the two handles
\* of one signal, and a handle is a slot index with a version.
handle_code(id) == id.idx * 64 + id.version

handle_of(code) == [idx |-> code \div 64, version |-> code % 64]

\* The value of a counter signal, for the closure passed to update.
counter_value(ns, id) ==
    IF Live(ns, id) /\ ns[id].value # <<>> THEN ns[id].value[1] ELSE Zero

\* A panic: the program ends.
panic(m) == [m EXCEPT !.stack = <<[k |-> "panic"]>>]

\* increment leaving the counter as it is.
increment_none(m, ctx) == m

\* SuspenseContext::increment: `*c += 1` in the closure given to update, which
\* is not called for a dropped signal.  At usize::MAX the addition overflows:
\* a panic in a build with overflow checks, 0 in a build without.
increment(m, ctx) ==
    LET id == handle_of(ctx)
        c == counter_value(m.nodes, id)
    IN IF ~Live(m.nodes, id) \/ m.nodes[id].value = <<>> THEN m
       ELSE IF c # UsizeMax THEN update(m, id, succ(c))
       ELSE IF m.overflow_checks THEN panic(m)
       ELSE update(m, id, Zero)

\* SuspenseContext::decrement
decrement(m, ctx) ==
    LET c == counter_value(m.nodes, handle_of(ctx)) IN
    update(m, handle_of(ctx), IF c # Zero THEN pred(c) ELSE c)

\* Resource::refetch
refetch(m, trigger) == update(m, trigger, wrapping_add_one(counter_value(m.nodes, trigger)))

\* The fetcher of the programs: the fetched result is the source value.
fetcher(source_val) == source_val

\* create_resource up to the first run of its effect: three signals, the
\* liveness flag, the cleanup that clears it, the effect.
create_resource(m, source) ==
    LET data == new_key(m)
        m1 == register_signal(m, NoValue)
        loading == new_key(m1)
        m2 == register_signal(m1, 0)
        trigger == new_key(m2)
        m3 == register_signal(m2, Zero)
        i == Len(m.alive) + 1
        m4 == [m3 EXCEPT !.alive = Append(@, TRUE),
                         !.hist.resources =
                             Append(@, [owner |-> m.current_owner,
                                        owner_runs |->
                                            IF m.current_owner \in DOMAIN m.hist.runs
                                            THEN m.hist.runs[m.current_owner] ELSE 0,
                                        data |-> data,
                                        loading |-> loading, trigger |-> trigger,
                                        effect |-> new_key(m3)])]
        m5 == on_cleanup(m4, [p |-> "alive_off", cap |-> i])
        m6 == Push(m5, [k |-> "create_resource", data |-> data, loading |-> loading,
                        trigger |-> trigger, owner_at_call |-> m.current_owner])
    IN create_effect(m6, [p |-> "resource", source |-> source, data |-> data,
                          loading |-> loading, trigger |-> trigger, alive |-> i])

\* create_resource after create_effect: Ok(Resource { data, loading, trigger }).
create_resource_return(m) ==
    LET f == Head(m.stack)
        m1 == Pop(m)
        m2 == [m1 EXCEPT !.reg["data"] = f.data, !.reg["loading"] = f.loading,
                         !.reg["trigger"] = f.trigger]
    IN IF m2.stack # <<>> /\ Head(m2.stack).k = "body"
       THEN [m2 EXCEPT !.stack[1].res = "Ok"]
       ELSE m2

\* The closure of the resource's effect without trigger.get().
resource_body_step_no_trigger(m) ==
    LET f == Head(m.stack)
        c == f.c
    IN IF f.stage = "source"
       THEN LET ctx == use_context_from(m.nodes, m.current_owner, SuspenseType)
            IN IF ctx # NoValue
               THEN increment([m EXCEPT !.stack[1].stage = "loading",
                                        !.stack[1].suspense_ctx = ctx], ctx)
               ELSE update([m EXCEPT !.stack[1].stage = "spawn"], c.loading, 1)
       ELSE IF f.stage = "loading"
       THEN update([m EXCEPT !.stack[1].stage = "spawn"], c.loading, 1)
       ELSE Pop([m EXCEPT !.tasks = Append(@, [alive |-> c.alive, data |-> c.data,
                                               loading |-> c.loading,
                                               res |-> fetcher(f.ret),
                                               suspense_ctx |-> f.suspense_ctx,
                                               n |-> Len(m.hist.fetches) + 1]),
                          !.hist.fetches =
                              Append(@, [res |-> c.alive, val |-> fetcher(f.ret),
                                         source_val |-> f.ret,
                                         suspense_ctx |-> f.suspense_ctx,
                                         done |-> FALSE, decs |-> 0, applied |-> FALSE])])

\* The closure of the resource's effect, after source() has returned:
\* trigger.get(), use_suspense_context(), increment, set_loading.set(true),
\* fetcher(source_val) and spawn_local.
resource_body_step(m) ==
    LET f == Head(m.stack)
        c == f.c
    IN IF f.stage = "source"
       THEN LET m1 == [m EXCEPT !.nodes = track_dependency(@, m.current_owner, c.trigger)]
                m2 == NoteRead(m1, m.nodes, c.trigger)
                ctx == use_context_from(m2.nodes, m2.current_owner, SuspenseType)
            IN IF ctx # NoValue
               THEN increment([m2 EXCEPT !.stack[1].stage = "loading",
                                         !.stack[1].suspense_ctx = ctx], ctx)
               ELSE update([m2 EXCEPT !.stack[1].stage = "spawn"], c.loading, 1)
       ELSE IF f.stage = "loading"
       THEN update([m EXCEPT !.stack[1].stage = "spawn"], c.loading, 1)
       ELSE Pop([m EXCEPT !.tasks = Append(@, [alive |-> c.alive, data |-> c.data,
                                               loading |-> c.loading,
                                               res |-> fetcher(f.ret),
                                               suspense_ctx |-> f.suspense_ctx,
                                               n |-> Len(m.hist.fetches) + 1]),
                          !.hist.fetches =
                              Append(@, [res |-> c.alive, val |-> fetcher(f.ret),
                                         source_val |-> f.ret,
                                         suspense_ctx |-> f.suspense_ctx,
                                         done |-> FALSE, decs |-> 0, applied |-> FALSE])])

\* The task without the decrement when the result is discarded.
task_step_no_dec_on_discard(m) ==
    LET f == Head(m.stack)
        t == f.t
    IN IF f.stage = "start"
       THEN IF m.alive[t.alive]
            THEN update([m EXCEPT !.stack[1].stage = "data",
                                  !.hist.fetches[t.n].applied = TRUE], t.data, t.res)
            ELSE Pop([m EXCEPT !.hist.fetches[t.n].done = TRUE])
       ELSE IF f.stage = "data"
       THEN update([m EXCEPT !.stack[1].stage = "dec"], t.loading, 0)
       ELSE IF f.stage = "dec" /\ t.suspense_ctx # NoValue
       THEN decrement([m EXCEPT !.stack[1].stage = "done",
                                !.hist.fetches[t.n].decs = @ + 1], t.suspense_ctx)
       ELSE Pop([m EXCEPT !.hist.fetches[t.n].done = TRUE])

\* The task writing loading before data.
task_step_loading_first(m) ==
    LET f == Head(m.stack)
        t == f.t
    IN IF f.stage = "start"
       THEN IF m.alive[t.alive]
            THEN update([m EXCEPT !.stack[1].stage = "data",
                                  !.hist.fetches[t.n].applied = TRUE], t.loading, 0)
            ELSE [m EXCEPT !.stack[1].stage = "dec"]
       ELSE IF f.stage = "data"
       THEN update([m EXCEPT !.stack[1].stage = "dec"], t.data, t.res)
       ELSE IF f.stage = "dec" /\ t.suspense_ctx # NoValue
       THEN decrement([m EXCEPT !.stack[1].stage = "done",
                                !.hist.fetches[t.n].decs = @ + 1], t.suspense_ctx)
       ELSE Pop([m EXCEPT !.hist.fetches[t.n].done = TRUE])

\* The task given to spawn_local, after fut.await.
task_step(m) ==
    LET f == Head(m.stack)
        t == f.t
    IN IF f.stage = "start"
       THEN IF m.alive[t.alive]
            THEN update([m EXCEPT !.stack[1].stage = "data",
                                  !.hist.fetches[t.n].applied = TRUE], t.data, t.res)
            ELSE [m EXCEPT !.stack[1].stage = "dec"]
       ELSE IF f.stage = "data"
       THEN update([m EXCEPT !.stack[1].stage = "dec"], t.loading, 0)
       ELSE IF f.stage = "dec" /\ t.suspense_ctx # NoValue
       THEN decrement([m EXCEPT !.stack[1].stage = "done",
                                !.hist.fetches[t.n].decs = @ + 1], t.suspense_ctx)
       ELSE Pop([m EXCEPT !.hist.fetches[t.n].done = TRUE])

\* History: the owner under which resource r was created has been removed
\* from the arena or, being an effect, has started another run.
OwnerGone(m, r) ==
    LET res == m.hist.resources[r] IN
    /\ res.owner # None
    /\ \/ ~Live(m.nodes, res.owner)
       \/ res.owner \in m.hist.removed
       \/ res.owner \in DOMAIN m.hist.runs /\ m.hist.runs[res.owner] > res.owner_runs

\* A fetch completes: its task resumes.  The frame notes the values of data
\* and loading at that moment, whether the flag was set and whether the
\* resource's owner was gone.
task_resume(m, i) ==
    LET t == m.tasks[i] IN
    Push([m EXCEPT !.tasks = SubSeq(@, 1, i - 1) \o SubSeq(@, i + 1, Len(@))],
         [k |-> "task", stage |-> "start", t |-> t,
          was_alive |-> m.alive[t.alive], owner_gone |-> OwnerGone(m, t.alive),
          data_before |-> IF Live(m.nodes, t.data) THEN m.nodes[t.data].value ELSE <<>>,
          loading_before |-> IF Live(m.nodes, t.loading) THEN m.nodes[t.loading].value
                             ELSE <<>>])

----------------------------------------------------------------------------
\* One op of a closure

ExecOp(m, op, val) ==
    CASE op.op = "get" -> get(m, op.r)
      [] op.op = "get_untracked" -> get_untracked(m, op.r)
      [] op.op = "set" -> update(m, m.reg[op.r], op.v)
      [] op.op = "create_signal" -> create_signal(m, op.r, op.v)
      [] op.op = "create_effect" -> create_effect(m, [p |-> op.p])
      [] op.op = "create_scope" -> create_scope(m, op.p, op.r)
      [] op.op = "dispose" -> dispose(m, m.reg[op.r])
      [] op.op = "on_cleanup" -> on_cleanup(m, [p |-> op.p, cap |-> 0])
      [] op.op = "create_resource" -> create_resource(m, op.source)
      [] op.op = "provide_handle" -> provide_context(m, op.t, handle_code(m.reg[op.r]))
      [] op.op = "alive_off" -> [m EXCEPT !.alive[Head(m.stack).env] = FALSE]
      [] op.op = "untrack" -> untrack(m, op.p)
      [] op.op = "create_memo" -> create_memo(m, op.f, op.r)
      [] op.op = "provide_context" -> provide_context(m, op.t, op.v)
      [] op.op = "provide_last" -> provide_context(m, op.t, val)
      [] op.op = "use_context" -> use_context(m, op.t)
      [] op.op = "get_max" ->
            LET m1 == get(m, op.r)
                got == Head(m1.stack).val
            IN SetVal(m1, IF got > val THEN got ELSE val)
      [] op.op = "mount_for" -> create_effect(m, [p |-> "for"])
      [] op.op = "if_eq" -> IF val = op.v THEN m ELSE [m EXCEPT !.stack[1].pc = @ + op.n]
      [] OTHER -> m

\* A closure returns its last value to create_memo and to the memo's effect.
closure_return(m) ==
    IF Len(m.stack) >= 2
       /\ m.stack[2].k \in {"create_memo", "memo_body", "for_body", "resource_body"}
    THEN Pop([m EXCEPT !.stack[2].ret = Head(m.stack).val])
    ELSE Pop(m)

\* The closure on top of the stack makes its next call, or returns.
body_step(m) ==
    LET f == Head(m.stack)
        code == Prog(f.p)
    IN IF f.pc > Len(code) THEN closure_return(m)
       ELSE ExecOp([m EXCEPT !.stack[1].pc = @ + 1], code[f.pc], f.val)

\* Runtime::run_cleanups, one iteration: dispose the next child, else call the
\* next cleanup, else unsubscribe and return.
run_cleanups_step(m) ==
    LET f == Head(m.stack) IN
    IF f.children # <<>>
    THEN dispose_node([m EXCEPT !.stack[1].children = Tail(@)], Head(f.children), FALSE, FALSE)
    ELSE IF f.cleanups # <<>>
    THEN Push([m EXCEPT !.stack[1].cleanups = Tail(@), !.hist.cleaned = @ \cup {f.self_id},
                        !.hist.callbacks[Head(f.cleanups).tok].calls = @ + 1],
              [BodyFrame(Head(f.cleanups).p, m.current_owner) EXCEPT
                  !.env = Head(f.cleanups).cap])
    ELSE Pop([m EXCEPT !.nodes = unsubscribe(@, f.self_id, f.dependencies)])

\* Runtime::dispose_node after clean_node: unlink from the parent when asked,
\* then remove the node.
dispose_node_finish(m) ==
    LET f == Head(m.stack)
        id == f.id
        parent == IF Live(m.nodes, id) THEN m.nodes[id].parent ELSE None
        idx == IF f.remove_from_parent /\ parent # None /\ Live(m.nodes, parent)
               THEN position(m.nodes[parent].children, id) ELSE 0
        m1 == IF idx # 0
              THEN [m EXCEPT !.nodes[parent].children = swap_remove(@, idx)]
              ELSE m
        m2 == slot_remove(m1, id)
    IN Pop([m2 EXCEPT !.hist.disposed = IF f.api THEN @ \cup {id} ELSE @,
                      !.hist.removed = IF Live(m.nodes, id) THEN @ \cup {id} ELSE @])

\* run_effect after run_cleanups: make the effect the owner and call the body.
run_effect_body(m) ==
    LET f == Head(m.stack)
        id == f.effect_id
        leak == \E x \in m.hist.disposed : x \in AncestorsIn(m.hist.parent_of, id)
        st1 == [m.stack EXCEPT ![1].stage = "body", ![1].prev_owner = m.current_owner,
                               ![1].leak = leak]
        st2 == IF f.by = "update" THEN [st1 EXCEPT ![2].direct = Append(@, id)] ELSE st1
        runs == IF id \in DOMAIN m.hist.runs THEN m.hist.runs[id] ELSE 0
        m1 == [m EXCEPT !.stack = NoteBodyStart(st2, id), !.current_owner = id,
                        !.hist.runs = (id :> runs + 1) @@ @]
    IN IF f.computation = NoComputation THEN Pop(m)
       ELSE IF f.computation.p = "memo"
       THEN Push(Push(m1, [k |-> "memo_body", read |-> f.computation.read, ret |-> NoValue,
                           stage |-> "compute"]),
                 BodyFrame(f.computation.f, m1.current_owner))
       ELSE IF f.computation.p = "resource"
       THEN Push(Push(m1, [k |-> "resource_body", stage |-> "source", ret |-> NoValue,
                           c |-> f.computation, suspense_ctx |-> NoValue]),
                 BodyFrame(f.computation.source, m1.current_owner))
       ELSE IF f.computation.p = "for"
       THEN Push(Push(m1, [k |-> "for_body", stage |-> "items", ret |-> <<>>, items |-> <<>>,
                           new_keys |-> {}, new_rows_order |-> <<>>, pending |-> <<>>,
                           rows_before |-> m.active_rows, created |-> <<>>, moves |-> 0,
                           root_before |-> <<>>]),
                 BodyFrame("items_fn", m1.current_owner))
       ELSE Push(m1, BodyFrame(f.computation.p, m1.current_owner))

\* run_effect returning without restoring the owner.
run_effect_return_keep(m) == Pop(m)

\* run_effect after the body: restore the owner.
run_effect_return(m) ==
    Pop([m EXCEPT !.current_owner = Head(m.stack).prev_owner])

\* The loop of update iterating the signal's live subscriber list instead of
\* the clone: subscribers added during the flush are run too.
update_step_live(m) ==
    LET f == Head(m.stack)
        added == SelectSeq(get_dependents(m.nodes, f.signal_id),
                           LAMBDA e : ~contains(f.snap, e) /\ ~contains(f.direct, e))
        todo == IF f.effects_to_run # <<>> THEN f.effects_to_run ELSE added
    IN IF todo = <<>> THEN Pop(m)
       ELSE run_effect([m EXCEPT !.stack[1].effects_to_run = Tail(todo)], Head(todo), "update")

\* A loop of update that skips an effect whose body has already run during
\* the flush of the outermost write.
update_step_dedup(m) ==
    LET f == Head(m.stack) IN
    IF f.effects_to_run = <<>> THEN Pop(m)
    ELSE LET effect_id == Head(f.effects_to_run)
             m1 == [m EXCEPT !.stack[1].effects_to_run = Tail(@)]
         IN IF \E i \in FramesOf(m.stack, "update") : contains(m.stack[i].all, effect_id)
            THEN m1
            ELSE run_effect(m1, effect_id, "update")

\* WriteSignal::update, the loop over effects_to_run.
update_step(m) ==
    LET f == Head(m.stack) IN
    IF f.effects_to_run = <<>> THEN Pop(m)
    ELSE LET effect_id == Head(f.effects_to_run)
             m1 == [m EXCEPT !.stack[1].effects_to_run = Tail(@),
                             !.stack[1].skipped = IF Live(m.nodes, effect_id) THEN @
                                                  ELSE @ \cup {effect_id}]
         IN run_effect(m1, effect_id, "update")

\* create_scope after the body: restore the owner, return the id.
create_scope_return(m) ==
    LET f == Head(m.stack) IN
    Pop([m EXCEPT !.current_owner = f.prev_owner, !.reg[f.r] = f.id])

\* untrack after f: restore the owner.
untrack_return(m) ==
    Pop([m EXCEPT !.current_owner = Head(m.stack).prev_owner])

----------------------------------------------------------------------------
\* The keyed list (For::mount)

\* Node::first_child, Node::next_sibling; 0 is no node.
first_child(children) == IF children = <<>> THEN 0 ELSE children[1]

next_sibling(children, c) ==
    LET i == position(children, c) IN
    IF i = 0 \/ i = Len(children) THEN 0 ELSE children[i + 1]

\* Element::remove
remove_child(children, node) == SelectSeq(children, LAMBDA c : c # node)

\* An insert_before that leaves a node that is a child where it is.
insert_before_nowhere(children, node, cursor) ==
    IF contains(children, node) THEN children ELSE Append(children, node)

\* Node::insert_before(node, cursor): node leaves its place, if it has one,
\* and goes before cursor, or last with no cursor.
insert_before(children, node, cursor) ==
    LET rest == remove_child(children, node)
        i == position(rest, cursor)
    IN IF cursor = 0 \/ i = 0 THEN Append(rest, node)
       ELSE SubSeq(rest, 1, i - 1) \o <<node>> \o SubSeq(rest, i, Len(rest))

\* The forward scan of the new rows with a cursor over the container's
\* children: a row at the cursor is left in place, any other is moved before
\* the cursor; each row is stored again under its key.
RECURSIVE cursor_scan(_, _, _, _, _)
cursor_scan(children, rows_map, new_rows_order, cursor, moves) ==
    IF new_rows_order = <<>>
    THEN [root |-> children, active_rows |-> rows_map, moves |-> moves]
    ELSE LET row == Head(new_rows_order)
             is_in_place == cursor # 0 /\ cursor = row.wrapper
             stored == (row.key :> [wrapper |-> row.wrapper, id |-> row.id]) @@ rows_map
         IN IF is_in_place
            THEN cursor_scan(children, stored, Tail(new_rows_order),
                             next_sibling(children, cursor), moves)
            ELSE cursor_scan(insert_before(children, row.wrapper, cursor), stored,
                             Tail(new_rows_order), cursor, moves + 1)

\* The loop over the items creating a wrapper and a scope for every item.
row_lookup_always_create(m) ==
    LET f == Head(m.stack)
        key == Head(f.items)
        m1 == [m EXCEPT !.stack[1].items = Tail(@),
                        !.stack[1].new_keys = @ \cup {key}]
    IN create_scope([m1 EXCEPT !.elements = @ + 1,
                               !.stack[1].pending = <<key, m.elements + 1>>,
                               !.stack[1].created = Append(@, key)],
                    "row", "row")

\* The loop over the items, for the next item: its key's stored pair, or a
\* new wrapper and a new scope whose body maps the item and mounts the view.
row_lookup(m) ==
    LET f == Head(m.stack)
        key == Head(f.items)
        m1 == [m EXCEPT !.stack[1].items = Tail(@),
                        !.stack[1].new_keys = @ \cup {key}]
    IN IF key \in DOMAIN m.active_rows
       THEN [m1 EXCEPT !.stack[1].new_rows_order =
                           Append(@, [key |-> key,
                                      wrapper |-> m.active_rows[key].wrapper,
                                      id |-> m.active_rows[key].id])]
       ELSE create_scope([m1 EXCEPT !.elements = @ + 1,
                                    !.stack[1].pending = <<key, m.elements + 1>>,
                                    !.stack[1].created = Append(@, key)],
                         "row", "row")

\* The body of the driving effect, one step; `k` is the entry that
\* HashMap::retain visits next among those it drops.
for_step(m, k) ==
    LET f == Head(m.stack) IN
    CASE f.stage = "items" ->
            [m EXCEPT !.stack[1].items = f.ret, !.stack[1].stage = "rows"]
      [] f.stage = "rows" /\ f.pending # <<>> ->
            \* create_scope has returned the row's scope
            [m EXCEPT !.stack[1].new_rows_order =
                          Append(@, [key |-> f.pending[1], wrapper |-> f.pending[2],
                                     id |-> m.reg["row"]]),
                      !.stack[1].pending = <<>>]
      [] f.stage = "rows" /\ f.pending = <<>> /\ f.items = <<>> ->
            [m EXCEPT !.stack[1].stage = "retain"]
      [] f.stage = "rows" /\ f.pending = <<>> /\ f.items # <<>> -> row_lookup(m)
      [] f.stage = "retain" /\ k \notin DOMAIN m.active_rows ->
            [m EXCEPT !.stack[1].stage = "scan"]
      [] f.stage = "retain" /\ k \in DOMAIN m.active_rows ->
            dispose([m EXCEPT !.root = remove_child(@, m.active_rows[k].wrapper),
                              !.active_rows = [x \in DOMAIN @ \ {k} |-> @[x]]],
                    m.active_rows[k].id)
      [] f.stage = "scan" ->
            LET r == cursor_scan(m.root, m.active_rows, f.new_rows_order,
                                 first_child(m.root), 0)
            IN [m EXCEPT !.root = r.root, !.active_rows = r.active_rows,
                         !.stack[1].moves = r.moves, !.stack[1].stage = "done",
                         !.stack[1].root_before = m.root]
      [] OTHER -> Pop(m)

\* A retain that keeps every entry.
retain_all(m) == {"-"}

\* The entries retain may visit next: the stored keys that the new list lacks.
Dropped(m) ==
    IF Head(m.stack).stage = "retain" /\ DOMAIN m.active_rows \ Head(m.stack).new_keys # {}
    THEN DOMAIN m.active_rows \ Head(m.stack).new_keys
    ELSE {"-"}

----------------------------------------------------------------------------
\* Actions

Idle == stack = <<>>

Running(k) == stack # <<>> /\ Len(stack) <= MaxDepth /\ Head(stack).k = k

\* History: per live signal, its subscribers in the order in which their
\* current subscriptions were added.
NoteOrder(m) ==
    [m EXCEPT !.hist.order =
        [S \in {x \in DOMAIN m.nodes : m.nodes[x].kind = "Signal"} |->
            LET old == IF S \in DOMAIN @ THEN @[S] ELSE <<>>
                subs == m.nodes[S].subscribers
            IN SelectSeq(old, LAMBDA e : contains(subs, e))
               \o SelectSeq(subs, LAMBDA e : ~contains(old, e))]]

Internal(m) == Commit(NoteOrder(m)) /\ UNCHANGED <<scen, budget, overflow_checks>>

StepBody == Running("body") /\ Internal(body_step(State))

StepRunCleanups == Running("run_cleanups") /\ Internal(run_cleanups_step(State))

StepDisposeNode == Running("dispose_node") /\ Internal(dispose_node_finish(State))

StepRunEffect ==
    /\ Running("run_effect")
    /\ Internal(IF Head(stack).stage = "clean" THEN run_effect_body(State)
                ELSE run_effect_return(State))

StepUpdate == Running("update") /\ Internal(update_step(State))

StepCreateScope == Running("create_scope") /\ Internal(create_scope_return(State))

StepUntrack == Running("untrack") /\ Internal(untrack_return(State))

StepCreateMemo == Running("create_memo") /\ Internal(create_memo_finish(State))

StepMemoBody == Running("memo_body") /\ Internal(memo_body_finish(State))

TopLevel(m) ==
    Commit(NoteOrder(m)) /\ budget' = budget - 1 /\ UNCHANGED <<scen, overflow_checks>>

\* write.set(v) called from outside every closure
TopSet ==
    /\ Idle /\ budget > 0
    /\ \E r \in SigRegs, v \in Values :
          /\ reg[r] # None
          /\ TopLevel(update(State, reg[r], v))

\* dispose(scope) called from outside every closure
TopDispose ==
    /\ Idle /\ budget > 0
    /\ \E r \in ScopeRegs :
          /\ reg[r] # None
          /\ TopLevel(dispose(State, reg[r]))

\* A write of the item list of the keyed list from outside every closure
TopSetItems ==
    /\ Idle /\ budget > 0
    /\ reg["items"] # None
    /\ \E items \in ItemLists : TopLevel(update(State, reg["items"], items))

StepCreateResource == Running("create_resource") /\ Internal(create_resource_return(State))

StepResourceBody == Running("resource_body") /\ Internal(resource_body_step(State))

StepTask == Running("task") /\ Internal(task_step(State))

\* resource.refetch() called from outside every closure
TopRefetch ==
    /\ Idle /\ budget > 0
    /\ reg["trigger"] # None
    /\ TopLevel(refetch(State, reg["trigger"]))

\* A fetch in flight completes, in any order, between two top-level calls.
TaskComplete ==
    /\ Idle
    /\ \E i \in 1..Len(tasks) : Internal(task_resume(State, i))

\* ctx.increment() called from outside every closure
TopIncrement ==
    /\ Idle /\ budget > 0
    /\ reg["count"] # None
    /\ TopLevel(increment(State, handle_code(reg["count"])))

\* ctx.decrement() called from outside every closure
TopDecrement ==
    /\ Idle /\ budget > 0
    /\ reg["count"] # None
    /\ TopLevel(decrement(State, handle_code(reg["count"])))

StepFor == Running("for_body") /\ \E k \in Dropped(State) : Internal(for_step(State, k))

InitRuntime ==
    /\ nodes = <<>>
    /\ versions = <<>>
    /\ free = <<>>
    /\ current_owner = None
    /\ reg = [r \in Regs |-> None]
    /\ active_rows = <<>>
    /\ root = <<>>
    /\ elements = 0
    /\ alive = <<>>
    /\ tasks = <<>>
    /\ hist = [parent_of |-> <<>>, disposed |-> {}, late |-> {}, provided |-> <<>>,
               removed |-> {}, cleaned |-> {}, order |-> <<>>,
               callbacks |-> <<>>, runs |-> <<>>, seen |-> <<>>,
               resources |-> <<>>, fetches |-> <<>>]

\* The programs of S with n top-level calls; none of them brings a usize
\* near usize::MAX, so the build's overflow behaviour plays no part.
InitWith(S, n) ==
    /\ InitRuntime
    /\ overflow_checks = FALSE
    /\ budget = n
    /\ scen \in S
    /\ stack = <<BodyFrame(scen, None)>>

Init == InitWith(Scenarios, MaxOps)

Step ==
    \/ StepBody
    \/ StepRunCleanups
    \/ StepDisposeNode
    \/ StepRunEffect
    \/ StepUpdate
    \/ StepCreateScope
    \/ StepUntrack

Next ==
    \/ Step
    \/ TopSet
    \/ TopDispose

Spec == Init /\ [][Next]_vars

\* Programs with memos.
NextMemo ==
    \/ StepBody
    \/ StepRunCleanups
    \/ StepRunEffect
    \/ StepUpdate
    \/ StepCreateMemo
    \/ StepMemoBody
    \/ TopSet

SpecMemo == InitWith(MemoScenarios, MaxOps) /\ [][NextMemo]_vars

\* Programs in which an effect creates a memo or a memo reads a memo.
NextMemoOwner ==
    \/ StepBody
    \/ StepRunCleanups
    \/ StepDisposeNode
    \/ StepRunEffect
    \/ StepUpdate
    \/ StepCreateMemo
    \/ StepMemoBody
    \/ TopSet

SpecMemoOwner == InitWith(MemoOwnerScenarios, MaxOps) /\ [][NextMemoOwner]_vars

\* Programs with a keyed list.
NextFor ==
    \/ StepBody
    \/ StepRunCleanups
    \/ StepDisposeNode
    \/ StepRunEffect
    \/ StepUpdate
    \/ StepCreateScope
    \/ StepFor
    \/ TopSetItems

SpecFor == InitWith(ForScenarios, MaxRenders) /\ [][NextFor]_vars

\* Programs that keep handles of removed nodes.
NextArena ==
    \/ StepBody
    \/ StepRunCleanups
    \/ StepDisposeNode
    \/ StepRunEffect
    \/ StepUpdate
    \/ StepCreateScope
    \/ TopSet
    \/ TopDispose

SpecArena == InitWith(ArenaScenarios, MaxOps) /\ [][NextArena]_vars

\* Programs in which a running effect is disposed.
NextOrphan ==
    \/ StepBody
    \/ StepRunCleanups
    \/ StepDisposeNode
    \/ StepRunEffect
    \/ StepUpdate
    \/ StepCreateScope
    \/ TopSet
    \/ TopDispose

SpecOrphan == InitWith(OrphanScenarios, MaxOps) /\ [][NextOrphan]_vars

\* Programs with context values.
NextCtx ==
    \/ Step
    \/ TopSet
    \/ TopDispose

SpecCtx == InitWith(CtxScenarios, MaxOps) /\ [][NextCtx]_vars

\* Programs with a resource.
NextResource ==
    \/ StepBody
    \/ StepRunCleanups
    \/ StepDisposeNode
    \/ StepRunEffect
    \/ StepUpdate
    \/ StepCreateScope
    \/ StepCreateResource
    \/ StepResourceBody
    \/ StepTask
    \/ TopSet
    \/ TopDispose
    \/ TopRefetch
    \/ TaskComplete

SpecResource == InitWith(ResourceScenarios, MaxCalls) /\ [][NextResource]_vars

\* Programs that dispose the owner of a resource with fetches in flight.
NextDiscard ==
    \/ StepBody
    \/ StepRunCleanups
    \/ StepDisposeNode
    \/ StepRunEffect
    \/ StepUpdate
    \/ StepCreateScope
    \/ StepCreateResource
    \/ StepResourceBody
    \/ StepTask
    \/ TopDispose
    \/ TopRefetch
    \/ TaskComplete

SpecDiscard == InitWith(DiscardScenarios, MaxCalls) /\ [][NextDiscard]_vars

\* Calls of increment and decrement on a suspense counter, in either build.
NextCounter ==
    \/ StepBody
    \/ StepRunCleanups
    \/ StepRunEffect
    \/ StepUpdate
    \/ StepCreateScope
    \/ TopIncrement
    \/ TopDecrement

InitCounter ==
    /\ InitRuntime
    /\ overflow_checks \in BOOLEAN
    /\ budget = MaxOps
    /\ scen \in CounterScenarios
    /\ stack = <<BodyFrame(scen, None)>>

SpecCounter == InitCounter /\ [][NextCounter]_vars

----------------------------------------------------------------------------
\* Claims

\* The write on top of the stack has run its last subscriber and is about to
\* return.
FlushDone == stack # <<>> /\ Head(stack).k = "update" /\ Head(stack).effects_to_run = <<>>

\* The effect run on top of the stack has run its body and is about to return.
RunDone == stack # <<>> /\ Head(stack).k = "run_effect" /\ Head(stack).stage = "body"

Signals == {id \in DOMAIN nodes : nodes[id].kind = "Signal"}
Effects == {id \in DOMAIN nodes : nodes[id].kind = "Effect"}

\* C1 as stated: when a write's flush ends, the body of every effect of the
\* write's subscriber snapshot has run exactly once during the flush.
C1_ExactlyOncePerWrite ==
    FlushDone => \A e \in SeqSet(Head(stack).snap) : Count(Head(stack).all, e) = 1

\* C1 as amended: when a write's flush ends, the flush's own loop has run the
\* body of each snapshot effect exactly once if the effect was still in the
\* arena at its turn and not at all if it had been removed; it has run no
\* effect outside the snapshot; runs made by nested writes come on top.
C1_OncePerSnapshotEntry ==
    FlushDone =>
        LET f == Head(stack) IN
        /\ \A e \in SeqSet(f.snap) :
              /\ Count(f.direct, e) = (IF e \in f.skipped THEN 0 ELSE 1)
              /\ Count(f.all, e) >= Count(f.direct, e)
        /\ SeqSet(f.direct) \subseteq SeqSet(f.snap)

\* C1's case: a flush of two subscribers ends, each has run once, and an
\* effect run by the flush has added a subscription that the snapshot lacks.
C1_Witness ==
    /\ FlushDone
    /\ Len(Head(stack).snap) >= 2
    /\ \A e \in SeqSet(Head(stack).snap) : Count(Head(stack).direct, e) = 1
    /\ Live(nodes, Head(stack).signal_id)
    /\ \E e \in SeqSet(nodes[Head(stack).signal_id].subscribers) :
          e \notin SeqSet(Head(stack).snap)

\* C2 as stated: when a run of a live effect E ends, E's dependency list is
\* the set of signals E read in the run, and E is subscribed to those only.
C2_DepsAreLastReads ==
    RunDone /\ Live(nodes, Head(stack).effect_id) =>
        LET f == Head(stack)
            E == f.effect_id
        IN /\ SeqSet(nodes[E].dependencies) = f.reads
           /\ \A S \in Signals : contains(nodes[S].subscribers, E) <=> S \in f.reads

\* C2 as amended: the same, for a run of E during which no other run of E is
\* in progress.
C2_DepsAreLastReadsUnnested ==
    RunDone /\ Live(nodes, Head(stack).effect_id) /\ ~Head(stack).reentered =>
        LET f == Head(stack)
            E == f.effect_id
        IN /\ SeqSet(nodes[E].dependencies) = f.reads
           /\ \A S \in Signals : contains(nodes[S].subscribers, E) <=> S \in f.reads

\* C2's case: a re-run of the branching effect that no longer reads b ends,
\* and b, which the run before had read, no longer lists the effect.
C2_Witness ==
    /\ RunDone /\ ~Head(stack).reentered
    /\ Head(stack).by = "update"
    /\ Live(nodes, Head(stack).effect_id)
    /\ nodes[Head(stack).effect_id].computation = [p |-> "branch"]
    /\ Head(stack).reads = {reg["a"]}
    /\ nodes[reg["b"]].subscribers # <<>>
    /\ ~contains(nodes[reg["b"]].subscribers, Head(stack).effect_id)

\* C3 as stated: once dispose(X) has returned, no live signal lists an effect
\* created under X, and no run of such an effect's body starts.
C3_DisposalLeakFree ==
    /\ \A x \in hist.disposed : \A S \in Signals : \A e \in SeqSet(nodes[S].subscribers) :
          x \notin AncestorsIn(hist.parent_of, e)
    /\ \A i \in FramesOf(stack, "run_effect") : ~stack[i].leak

MemoEffects == {id \in Effects : nodes[id].computation.p = "memo"}

\* C4: a write made by a memo's effect to the memo's signal changes the
\* signal's value; and when a top-level write to an upstream signal ends with
\* a memo's value as it was before the write, the write has run no subscriber
\* of the memo through the memo: a subscriber that depends on the memo alone
\* has not run, and one that is also subscribed to the written signal has run
\* only as that signal's subscriber.
C4_MemoFiltering ==
    /\ \A i \in FramesOf(stack, "update") :
          i < Len(stack) /\ stack[i + 1].k = "memo_body" => stack[i].old # stack[i].new
    /\ FlushDone /\ Len(stack) = 1 =>
          \A me \in MemoEffects :
             LET M == nodes[me].computation.read IN
             Live(nodes, M) /\ nodes[M].value = Head(stack).before[M] =>
                \A e \in SeqSet(nodes[M].subscribers) :
                   /\ Count(Head(stack).all, e) = Count(Head(stack).direct, e)
                   /\ Live(nodes, e) /\ SeqSet(nodes[e].dependencies) = {M} =>
                         ~contains(Head(stack).all, e)

\* C4's case: a top-level write has changed an upstream signal, the memo has
\* recomputed to the value it had, and the memo has a subscriber depending on
\* it alone, which has not run.
C4_Witness ==
    /\ FlushDone /\ Len(stack) = 1
    /\ Head(stack).old # Head(stack).new
    /\ \E me \in MemoEffects :
          LET M == nodes[me].computation.read IN
          /\ contains(Head(stack).all, me)
          /\ Live(nodes, M) /\ nodes[M].value = Head(stack).before[M]
          /\ \E e \in SeqSet(nodes[M].subscribers) :
                /\ Live(nodes, e) /\ SeqSet(nodes[e].dependencies) = {M}
                /\ ~contains(Head(stack).all, e)

\* The closure on top of the stack has just returned from the call `opname`.
JustCalled(opname) ==
    /\ stack # <<>> /\ Head(stack).k = "body" /\ Head(stack).pc > 1
    /\ Prog(Head(stack).p)[Head(stack).pc - 1].op = opname

\* The type of the context value asked for by the call just made.
AskedType == Prog(Head(stack).p)[Head(stack).pc - 1].t

\* The value most recently provided for type t on the nearest node that has
\* been given one, going from node n up the ownership tree; NoValue if the
\* walk leaves the arena first.
RECURSIVE NearestProvided(_, _)
NearestProvided(n, t) ==
    IF n = None \/ ~Live(nodes, n) THEN NoValue
    ELSE IF <<n, t>> \in DOMAIN hist.provided THEN hist.provided[<<n, t>>]
    ELSE NearestProvided(hist.parent_of[n], t)

\* The nodes strictly above n in the ownership tree.
StrictAncestors(n) == AncestorsIn(hist.parent_of, n)

\* C5: use_context::<T>() returns the value most recently provided for T on
\* the nearest node of the path from the current owner to the root that holds
\* one, and None with no current owner or with no such node.
C5_ContextShadowing ==
    JustCalled("use_context") => Head(stack).val = NearestProvided(current_owner, AskedType)

\* C5's case: use_context has returned the value of the nearest provider
\* while an ancestor of that provider provides another value for the type.
C5_Witness ==
    /\ JustCalled("use_context")
    /\ current_owner # None
    /\ Head(stack).val # NoValue
    /\ \E n \in {current_owner} \cup StrictAncestors(current_owner) :
          /\ <<n, AskedType>> \in DOMAIN hist.provided
          /\ hist.provided[<<n, AskedType>>] = Head(stack).val
          /\ \E up \in StrictAncestors(n) :
                /\ Live(nodes, up)
                /\ <<up, AskedType>> \in DOMAIN hist.provided
                /\ hist.provided[<<up, AskedType>>] # Head(stack).val

\* The run of the keyed list's driving effect on top of the stack has stored
\* its rows and is about to return.
ForRunDone == stack # <<>> /\ Head(stack).k = "for_body" /\ Head(stack).stage = "done"

\* The nodes ever created under node x, and x.
CreatedUnder(x) == {x} \cup {n \in DOMAIN hist.parent_of : x \in AncestorsIn(hist.parent_of, n)}

\* C6 as stated: when a run of the keyed list's driving effect ends, for every
\* key stored before the run and present in the run's list, the row scope
\* stored for it before the run and every node created under that scope are
\* in the arena, and the scope's cleanups have not run.
C6_KeyedStability ==
    ForRunDone =>
        \A k \in DOMAIN Head(stack).rows_before \cap Head(stack).new_keys :
           LET x == Head(stack).rows_before[k].id IN
           /\ CreatedUnder(x) \subseteq DOMAIN nodes
           /\ x \notin hist.cleaned

\* The handle of a removed node that the last call went through.
StaleHandle == reg[Prog(Head(stack).p)[Head(stack).pc - 1].r]

C7_EdgeSymmetry ==
    Idle => \A S \in Signals : \A E \in Effects :
                contains(nodes[S].subscribers, E) <=> contains(nodes[E].dependencies, S)

\* C9: with no call in progress the owner is None; the body of an effect run
\* or of create_scope is called with that effect or scope as the owner, the
\* closure of untrack with none; and whenever a closure or a write's loop is
\* back on top of the stack (a create_effect, create_scope, untrack or write
\* it made has returned) the owner is the one it had before the call.
C9_OwnerSaveRestore ==
    /\ Idle => current_owner = None
    /\ \A i \in 1..Len(stack) :
          stack[i].k = "body" /\ i < Len(stack) =>
              /\ stack[i+1].k = "run_effect" => stack[i].own = stack[i+1].effect_id
              /\ stack[i+1].k = "create_scope" => stack[i].own = stack[i+1].id
              /\ stack[i+1].k = "untrack" => stack[i].own = None
    /\ stack # <<>> /\ Head(stack).k = "body" => current_owner = Head(stack).own
    /\ stack # <<>> /\ Head(stack).k = "update" => current_owner = Head(stack).owner_at_call

\* C9's case: the body of an effect is back on top after a create_scope it
\* made (whose body created an effect) has returned, inside a write's flush.
C9_Witness ==
    /\ stack # <<>> /\ Head(stack).k = "body" /\ Head(stack).p = "nesting"
    /\ Head(stack).pc = 3
    /\ current_owner = Head(stack).own /\ current_owner # None
    /\ FramesOf(stack, "update") # {}

\* C10 as stated: a write's loop runs no effect outside its snapshot, and an
\* effect that first subscribed to S during a flush of S has had its body run
\* by the time the next write to S returns.
C10_LateSubscriberRunsNext ==
    /\ \A i \in FramesOf(stack, "update") : SeqSet(stack[i].direct) \subseteq SeqSet(stack[i].snap)
    /\ FlushDone => \A e \in Head(stack).owed : contains(Head(stack).all, e)

\* C10 as amended: a write's loop runs no effect outside its snapshot, and an
\* effect that first subscribed to S during a flush of S and is still
\* subscribed at the next write to S is run by that write's loop, unless it
\* has been removed from the arena before its turn.
C10_LateSubscriberInNextSnapshot ==
    /\ \A i \in FramesOf(stack, "update") : SeqSet(stack[i].direct) \subseteq SeqSet(stack[i].snap)
    /\ FlushDone =>
          \A e \in Head(stack).owed :
              contains(Head(stack).snap, e) =>
                  contains(Head(stack).direct, e) \/ e \in Head(stack).skipped

\* C10's case: an effect that subscribed during one flush is run by the loop
\* of the next write to the same signal.
C10_Witness ==
    /\ FlushDone
    /\ \E e \in Head(stack).owed : contains(Head(stack).direct, e)

\* C11 as stated: the subscribers captured by a write are in the order in
\* which their current subscriptions to the signal were added.
C11_InsertionOrder ==
    \A i \in FramesOf(stack, "update") : stack[i].snap = stack[i].order

\* The re-run of an effect on top of the stack has cleaned the effect and is
\* about to start the body.
RerunCleaned ==
    /\ stack # <<>> /\ Head(stack).k = "run_effect" /\ Head(stack).stage = "clean"
    /\ Head(stack).by = "update"
    /\ Live(nodes, Head(stack).effect_id)

\* The registrations of cleanup callbacks made while node x was the owner.
CallbacksOf(x) == {t \in DOMAIN hist.callbacks : hist.callbacks[t].owner = x}

\* C12 as stated: when the body of a re-run of effect E is about to start,
\* no node created under E is in the arena, every cleanup callback registered
\* on E has been invoked, no signal lists E as a subscriber, and E's
\* dependency list is empty.
C12_CleanBeforeRerun ==
    RerunCleaned =>
        LET E == Head(stack).effect_id IN
        /\ (CreatedUnder(E) \ {E}) \cap DOMAIN nodes = {}
        /\ \A t \in CallbacksOf(E) : hist.callbacks[t].calls >= 1
        /\ \A S \in Signals : ~contains(nodes[S].subscribers, E)
        /\ nodes[E].dependencies = <<>>

\* The node reached from n by k parent links of live nodes; None when the
\* walk leaves the arena.
RECURSIVE Up(_, _)
Up(n, k) ==
    IF n = None \/ ~Live(nodes, n) THEN None
    ELSE IF k = 0 THEN n
    ELSE Up(nodes[n].parent, k - 1)

\* The handle that the creation just made has stored.
Created == reg[Prog(Head(stack).p)[Head(stack).pc - 1].r]

\* C13: a live node's parent is the owner that was current when the node was
\* registered (no parent when there was none); the parent links of live nodes
\* form no cycle; and a signal or scope whose creation has just returned is in
\* the child list of the current owner, the owner at its registration.
C13_OwnershipForest ==
    /\ \A n \in DOMAIN nodes : nodes[n].parent = hist.parent_of[n]
    /\ \A n \in DOMAIN nodes : Up(n, Cardinality(DOMAIN nodes)) = None
    /\ \A c \in {"create_signal", "create_scope"} :
          JustCalled(c) /\ Live(nodes, Created) =>
             /\ nodes[Created].parent = current_owner
             /\ Live(nodes, current_owner) => contains(nodes[current_owner].children, Created)

\* C13's case: a scope created in the body of an effect has just been
\* returned; it is a child of the effect and has a child of its own, whose
\* parent it is.
C13_Witness ==
    /\ JustCalled("create_scope") /\ Live(nodes, Created)
    /\ Live(nodes, current_owner)
    /\ nodes[current_owner].kind = "Effect"
    /\ contains(nodes[current_owner].children, Created)
    /\ \E n \in DOMAIN nodes : contains(nodes[Created].children, n) /\ nodes[n].parent = Created

\* A cleanup callback of the node being cleaned is about to run its first op.
CleanupStarting ==
    /\ Len(stack) >= 2
    /\ stack[1].k = "body" /\ stack[1].pc = 1
    /\ stack[2].k = "run_cleanups"

\* C14 as stated: when a cleanup callback of a node starts, no node created
\* under that node is in the arena (the children were disposed first, depth
\* first); and once dispose(x) has returned, neither x nor a node created
\* under x is in the arena and no live node lists x as a child.
C14_CascadingDisposal ==
    /\ CleanupStarting => (CreatedUnder(stack[2].self_id) \ {stack[2].self_id}) \cap DOMAIN nodes = {}
    /\ \A x \in hist.disposed :
          /\ CreatedUnder(x) \cap DOMAIN nodes = {}
          /\ \A n \in DOMAIN nodes : ~contains(nodes[n].children, x)

\* The state of the runtime proper is left as it is by the step.
RuntimeUnchanged ==
    UNCHANGED <<nodes, versions, free, current_owner, reg, active_rows, root, elements>>

\* dispose(id) is on top of the stack, for an id that is not in the arena.
DisposingMissing ==
    /\ stack # <<>> /\ Head(stack).k = "dispose_node" /\ Head(stack).api
    /\ ~Live(nodes, Head(stack).id)

\* C15: a call of dispose(id) for an id that is not in the arena changes
\* nothing in the runtime and calls nothing: the call only enters dispose_node
\* and the next step returns from it, the stack being as before the call.
C15_DisposeIdempotent ==
    [][/\ (~DisposingMissing /\ DisposingMissing') =>
             RuntimeUnchanged /\ stack' = <<Head(stack')>> \o stack
       /\ DisposingMissing => RuntimeUnchanged /\ stack' = Tail(stack)]_vars

\* C15's case: dispose(x) is called a second time, after x and what was
\* created under it have been removed.
C15_Witness ==
    /\ DisposingMissing
    /\ Len(stack) = 1
    /\ Head(stack).id \in hist.disposed
    /\ Head(stack).id \in hist.removed

\* C16 as stated: a cleanup callback is never invoked twice; one registered
\* with no current owner is never invoked; one registered while O was the
\* owner has been invoked once O has been removed from the arena, and once
\* the body of a re-run of O is about to start.
C16_CleanupExactlyOnce ==
    \A t \in DOMAIN hist.callbacks :
       LET cb == hist.callbacks[t] IN
       /\ cb.calls <= 1
       /\ cb.owner = None => cb.calls = 0
       /\ cb.owner # None /\ cb.owner \in hist.removed => cb.calls = 1
       /\ RerunCleaned /\ cb.owner = Head(stack).effect_id => cb.calls = 1

\* The op that the closure on top of the stack executes next.
AtOp(ops) ==
    /\ stack # <<>> /\ Head(stack).k = "body"
    /\ Head(stack).pc <= Len(Prog(Head(stack).p))
    /\ Prog(Head(stack).p)[Head(stack).pc].op \in ops

\* The next step is a read that must not be tracked: get_untracked, or get
\* with no current owner, with a scope as owner, or in the closure of untrack.
UntrackedRead ==
    \/ AtOp({"get_untracked"})
    \/ /\ AtOp({"get", "get_max"})
       /\ \/ current_owner = None
          \/ Live(nodes, current_owner) /\ nodes[current_owner].kind = "Scope"
          \/ Len(stack) >= 2 /\ stack[2].k = "untrack"

\* The subscriber list and the dependency list of every node.
Edges == [n \in DOMAIN nodes |-> <<nodes[n].subscribers, nodes[n].dependencies>>]

\* C17: a get with no current owner or with a scope as owner, a get in the
\* closure of untrack, and a get_untracked leave every subscriber list and
\* every dependency list as they are.
C17_UntrackedReads == [][UntrackedRead => Edges' = Edges]_vars

\* C17's case: a get of a live signal that has a subscriber has returned the
\* value to a scope's body, the scope being the owner.
C17_Witness ==
    /\ JustCalled("get")
    /\ Live(nodes, current_owner) /\ nodes[current_owner].kind = "Scope"
    /\ Head(stack).val # NoValue
    /\ nodes[reg["a"]].subscribers # <<>>
    /\ nodes[current_owner].dependencies = <<>>

\* No element occurs twice in the sequence.
NoDup(q) == \A i, j \in 1..Len(q) : q[i] = q[j] => i = j

\* C18: no subscriber list, dependency list or subscriber snapshot holds an
\* identifier twice; and when a top-level write ends, the effect that reads
\* the written signal twice in its body (and writes nothing) has run once.
C18_SetSemantics ==
    /\ \A n \in DOMAIN nodes : NoDup(nodes[n].subscribers) /\ NoDup(nodes[n].dependencies)
    /\ \A i \in FramesOf(stack, "update") : NoDup(stack[i].snap)
    /\ FlushDone /\ Len(stack) = 1 =>
          \A e \in SeqSet(Head(stack).snap) :
             Live(nodes, e) /\ nodes[e].computation = [p |-> "read_aa"] =>
                Count(Head(stack).all, e) = 1

\* C18's case: a write has run the effect that reads the signal twice, once,
\* and the effect and the signal list each other once.
C18_Witness ==
    /\ FlushDone /\ Len(stack) = 1
    /\ \E e \in SeqSet(Head(stack).snap) :
          /\ Live(nodes, e) /\ nodes[e].computation = [p |-> "read_aa"]
          /\ Count(Head(stack).all, e) = 1
          /\ nodes[e].dependencies = <<Head(stack).signal_id>>
          /\ Count(nodes[Head(stack).signal_id].subscribers, e) = 1

\* The effects of the basic scenario: a root effect whose body is a.get().
BasicEffects ==
    {e \in Effects : nodes[e].computation = [p |-> "read_a"] /\ nodes[e].parent = None}

\* C19: when create_effect is about to return, the body of the new effect has
\* run, exactly once unless the body's own writes have re-run it, and it ran
\* with the effect as owner; and when a write to a signal ends, the write has
\* run the body of each basic effect subscribed to it exactly once, and the
\* body has read the value written.
C19_BasicEffect ==
    /\ RunDone /\ Head(stack).by = "create_effect" =>
          LET E == Head(stack).effect_id IN
          /\ E \in DOMAIN hist.runs /\ hist.runs[E] >= 1
          /\ ~Head(stack).reentered => hist.runs[E] = 1
    /\ \A i \in FramesOf(stack, "body") :
          i < Len(stack) /\ stack[i + 1].k = "run_effect" =>
             stack[i].own = stack[i + 1].effect_id
    /\ FlushDone =>
          \A e \in SeqSet(Head(stack).snap) \cap BasicEffects :
             /\ Count(Head(stack).direct, e) = 1
             /\ hist.seen[e] = Head(stack).new

\* C19's case: a write that changes the signal's value ends, and a basic
\* effect created before it has run three times in all: at its creation and
\* for two writes.
C19_Witness ==
    /\ FlushDone
    /\ Head(stack).old # Head(stack).new
    /\ \E e \in SeqSet(Head(stack).snap) \cap BasicEffects :
          /\ hist.runs[e] = 3
          /\ hist.seen[e] = Head(stack).new

\* C20: create_resource called while there is no current owner returns an
\* error at the call site and creates no resource.
C20_ResourceNeedsOwner ==
    JustCalled("create_resource") /\ current_owner = None
        => Head(stack).res = "Err" /\ reg["data"] = None

\* The value of a signal, <<>> when it is not in the arena.
ValueOf(id) == IF Live(nodes, id) THEN nodes[id].value ELSE <<>>

\* The task of a completed fetch is running.
TaskRunning == stack # <<>> /\ stack[Len(stack)].k = "task"

\* C21: when the owner under which a resource was created was disposed or
\* re-run before a fetch of the resource completes, the completion changes
\* neither data nor loading and writes neither (so no subscriber of either
\* runs); and a fetch that has not completed is still in flight, whatever
\* was disposed.
C21_CooperativeDiscard ==
    /\ TaskRunning /\ stack[Len(stack)].owner_gone =>
          LET f == stack[Len(stack)] IN
          /\ ValueOf(f.t.data) = f.data_before
          /\ ValueOf(f.t.loading) = f.loading_before
          /\ \A i \in FramesOf(stack, "update") :
                stack[i].signal_id \notin {f.t.data, f.t.loading}
    /\ \A n \in 1..Len(hist.fetches) :
          ~hist.fetches[n].done =>
              \/ \E i \in 1..Len(tasks) : tasks[i].n = n
              \/ TaskRunning /\ stack[Len(stack)].t.n = n

\* The frame of the running task.
Task == stack[Len(stack)]

\* C22: a fetch that completes while the liveness flag is true writes the
\* fetched result to data, then false to loading (data is written while
\* loading still has its old value); after that the suspense counter found
\* when the fetch started is decremented once, and a completion whose result
\* is discarded decrements it once too; a fetch started without a counter
\* decrements nothing.
C22_ResourceCompletion ==
    /\ TaskRunning /\ Task.was_alive /\ Task.stage = "data" =>
          /\ Live(nodes, Task.t.data) => nodes[Task.t.data].value = <<Task.t.res>>
          /\ ValueOf(Task.t.loading) = Task.loading_before
          /\ hist.fetches[Task.t.n].decs = 0
    /\ TaskRunning /\ Task.was_alive /\ Task.stage \in {"dec", "done"} =>
          /\ Live(nodes, Task.t.data) => nodes[Task.t.data].value = <<Task.t.res>>
          /\ Live(nodes, Task.t.loading) => nodes[Task.t.loading].value = <<0>>
    /\ TaskRunning /\ Task.stage = "done" /\ Len(stack) >= 2
                   /\ stack[Len(stack) - 1].effects_to_run = stack[Len(stack) - 1].snap =>
          LET u == stack[Len(stack) - 1] IN
          /\ u.k = "update" /\ u.signal_id = handle_of(Task.t.suspense_ctx)
          /\ u.new = (IF u.old # Zero THEN pred(u.old) ELSE u.old)
    /\ \A n \in 1..Len(hist.fetches) :
          LET ft == hist.fetches[n] IN
          /\ ft.done => ft.decs = (IF ft.suspense_ctx # NoValue THEN 1 ELSE 0)
          /\ ft.decs <= 1

\* A fetch with a suspense counter has completed with the flag set and its
\* writes done, and a later one has completed with its result discarded.
C22_Witness ==
    /\ Idle
    /\ \E n, k \in 1..Len(hist.fetches) :
          /\ hist.fetches[n].done /\ hist.fetches[n].decs = 1 /\ hist.fetches[n].applied
          /\ hist.fetches[k].done /\ hist.fetches[k].decs = 1 /\ ~hist.fetches[k].applied

\* The fetches started with suspense counter c and not yet completed.
InFlight(c) ==
    {n \in 1..Len(hist.fetches) :
        hist.fetches[n].suspense_ctx = handle_code(c) /\ ~hist.fetches[n].done}

\* The signals that were provided as suspense counters.
Counters ==
    {c \in DOMAIN nodes :
        \E pr \in DOMAIN hist.provided :
            pr[2] = SuspenseType /\ hist.provided[pr] = handle_code(c)}

\* C23: between two top-level calls, a live suspense counter's value is the
\* number of fetches started with it and not yet completed (0 when every
\* one has completed), whatever source changes, refetches, completions and
\* disposals have happened and in whatever order.
C23_CounterTracksInFlight ==
    Idle => \A c \in Counters : nodes[c].value = <<usize(Cardinality(InFlight(c)))>>

\* The resource's scope has been disposed; of two fetches started with a
\* counter that is still live, one has completed and one is in flight.
C23_Witness ==
    /\ Idle
    /\ \E c \in Counters :
          /\ nodes[c].value = <<usize(1)>>
          /\ \E n \in 1..Len(hist.fetches) :
                /\ hist.fetches[n].suspense_ctx = handle_code(c)
                /\ hist.fetches[n].done /\ ~hist.fetches[n].applied
                /\ ~alive[hist.fetches[n].res]

\* The program has panicked.
Panicked == stack # <<>> /\ stack[Len(stack)].k = "panic"

\* C24: every write made to a suspense counter by increment or decrement
\* goes one up, one down, or leaves 0 at 0: the value never passes below 0
\* and never wraps around; and no call ends the program.
C24_CounterSaturates ==
    /\ ~Panicked
    /\ \A i \in FramesOf(stack, "update") :
          stack[i].signal_id \in Counters =>
              \/ stack[i].old # UsizeMax /\ stack[i].new = succ(stack[i].old)
              \/ stack[i].old # Zero /\ stack[i].new = pred(stack[i].old)
              \/ stack[i].old = Zero /\ stack[i].new = Zero

\* The same for decrement alone: a write that does not go one up goes one
\* down or leaves 0 at 0.
C24_DecrementSaturates ==
    \A i \in FramesOf(stack, "update") :
        stack[i].signal_id \in Counters =>
            \/ stack[i].old # UsizeMax /\ stack[i].new = succ(stack[i].old)
            \/ stack[i].old = UsizeMax /\ stack[i].new = Zero
            \/ stack[i].old # Zero /\ stack[i].new = pred(stack[i].old)
            \/ stack[i].old = Zero /\ stack[i].new = Zero

\* The resources whose signals and effect were in the arena when the write
\* on top of the stack was made, and whose trigger or source signal (the
\* sources of these programs read a) the write is to.
Refetched ==
    {r \in 1..Len(hist.resources) :
        LET res == hist.resources[r] IN
        /\ {res.data, res.loading, res.trigger, res.effect} \subseteq Head(stack).live
        /\ Head(stack).signal_id \in {res.trigger, reg["a"]}}

\* The fetches of resource r started since the write on top of the stack.
StartedSince(r) ==
    {n \in (Head(stack).fetched + 1)..Len(hist.fetches) : hist.fetches[n].res = r}

\* C25 as stated: when the flush of a refetch, or of a write to a signal read
\* by source(), ends, the resource's effect has run exactly once and exactly
\* one fetch has been started, with the current source value.
C25_RefetchOnce ==
    FlushDone =>
        \A r \in Refetched :
            /\ Count(Head(stack).all, hist.resources[r].effect) = 1
            /\ Cardinality(StartedSince(r)) = 1
            /\ \A n \in StartedSince(r) :
                  hist.fetches[n].source_val = nodes[reg["a"]].value[1]

\* C25 as amended: the same, unless the flush removed the resource's effect
\* from the arena before its turn (the resource's owner is subscribed to the
\* written signal too and re-ran first): then the effect has not run and the
\* resource has started no fetch.
C25_RefetchOnceUnlessRemoved ==
    FlushDone =>
        \A r \in Refetched :
            IF hist.resources[r].effect \in Head(stack).skipped
            THEN /\ Count(Head(stack).all, hist.resources[r].effect) = 0
                 /\ StartedSince(r) = {}
            ELSE /\ Count(Head(stack).all, hist.resources[r].effect) = 1
                 /\ Cardinality(StartedSince(r)) = 1
                 /\ \A n \in StartedSince(r) :
                       hist.fetches[n].source_val = nodes[reg["a"]].value[1]

\* A refetch made while the first fetch is in flight has re-run the effect
\* once and started a second fetch.
C25_Witness ==
    /\ FlushDone
    /\ \E r \in Refetched :
          /\ Head(stack).signal_id = hist.resources[r].trigger
          /\ Count(Head(stack).all, hist.resources[r].effect) = 1
          /\ Cardinality(StartedSince(r)) = 1
          /\ \E n \in 1..Head(stack).fetched :
                hist.fetches[n].res = r /\ ~hist.fetches[n].done

\* The context map of every node in the arena.
Contexts == [n \in DOMAIN nodes |-> nodes[n].context]

\* C26: provide_context called with no current owner returns Err and leaves
\* every node's context map as it was; the closure that called it goes on
\* with its next op.
C26_ProvideNeedsOwner ==
    [][AtOp({"provide_context", "provide_last"}) /\ current_owner = None =>
          /\ Contexts' = Contexts
          /\ Len(stack') = Len(stack) /\ Head(stack').k = "body"
          /\ Head(stack').pc = Head(stack).pc + 1
          /\ Head(stack').res = "Err"]_vars

\* provide_context has returned Err to a closure run with no owner while
\* a node in the arena holds a context value.
C26_Witness ==
    /\ JustCalled("provide_context") /\ current_owner = None
    /\ Head(stack).res = "Err"
    /\ \E n \in DOMAIN nodes : DOMAIN nodes[n].context # {}

\* The handle the next op of the closure on top of the stack goes through.
NextHandle == reg[Prog(Head(stack).p)[Head(stack).pc].r]

\* C27: through the handle of a signal that is no longer in the arena, get
\* and get_untracked return None and add no edge, and set changes no node
\* and runs no effect; the caller goes on with its next op.  A top-level call
\* that returns at once has changed no node.
C27_DroppedReference ==
    [][/\ AtOp({"get", "get_untracked", "set"}) /\ ~Live(nodes, NextHandle) =>
             /\ nodes' = nodes
             /\ Len(stack') = Len(stack) /\ Head(stack').k = "body"
             /\ Head(stack').pc = Head(stack).pc + 1
             /\ AtOp({"get", "get_untracked"}) => Head(stack').val = NoValue
       /\ Idle /\ stack' = <<>> => nodes' = nodes]_vars

\* An effect's body has written through the handle of a signal that was
\* disposed with its scope.
C27_Witness ==
    /\ JustCalled("set") /\ StaleHandle \in hist.removed
    /\ current_owner # None /\ nodes[current_owner].kind = "Effect"

\* The keys of the rows of the run on top of the stack, in the list's order.
NewKeySeq ==
    [i \in 1..Len(Head(stack).new_rows_order) |-> Head(stack).new_rows_order[i].key]

\* The wrappers of those rows, in the list's order.
Desired ==
    [i \in 1..Len(Head(stack).new_rows_order) |-> Head(stack).new_rows_order[i].wrapper]

\* C28 as stated: when a run of the driving effect ends, it has created no
\* scope for a key that had a stored pair and exactly one for each key of
\* the list that had none.
C28_KeyedReuse ==
    ForRunDone =>
        /\ SeqSet(Head(stack).created) \subseteq Head(stack).new_keys
        /\ \A k \in Head(stack).new_keys :
              Count(Head(stack).created, k) =
                  (IF k \in DOMAIN Head(stack).rows_before THEN 0 ELSE 1)

\* C28 as amended: no scope for a key that had a stored pair, and one for
\* each item of the list whose key had none: one per key when the keys of
\* the list are distinct.
C28_KeyedReusePerItem ==
    ForRunDone =>
        /\ SeqSet(Head(stack).created) \subseteq Head(stack).new_keys
        /\ \A k \in Head(stack).new_keys :
              Count(Head(stack).created, k) =
                  (IF k \in DOMAIN Head(stack).rows_before THEN 0 ELSE Count(NewKeySeq, k))
        /\ NoDup(NewKeySeq) =>
              \A k \in Head(stack).new_keys \ DOMAIN Head(stack).rows_before :
                  Count(Head(stack).created, k) = 1

\* A run has ended that reused the stored pairs of two keys in another order
\* and created one scope for a key that had none.
C28_Witness ==
    /\ ForRunDone /\ NoDup(NewKeySeq)
    /\ Len(Head(stack).created) = 1
    /\ \E i, j \in 1..Len(NewKeySeq) :
          /\ i < j
          /\ {NewKeySeq[i], NewKeySeq[j]} \subseteq DOMAIN Head(stack).rows_before
          /\ Head(stack).rows_before[NewKeySeq[i]].wrapper
                > Head(stack).rows_before[NewKeySeq[j]].wrapper

\* C29: when a run of the driving effect ends, the stored keys are the keys
\* of the run's list; the row scope of every key that was stored before the
\* run and is not in the list, and every node created under it, is out of
\* the arena, and the scope's cleanups have run.
C29_KeyedRemoval ==
    ForRunDone =>
        /\ DOMAIN active_rows = Head(stack).new_keys
        /\ \A k \in DOMAIN Head(stack).rows_before \ Head(stack).new_keys :
              LET x == Head(stack).rows_before[k].id IN
              /\ CreatedUnder(x) \cap DOMAIN nodes = {}
              /\ x \in hist.cleaned

\* A run has ended that dropped one stored key and kept another.
C29_Witness ==
    /\ ForRunDone
    /\ DOMAIN Head(stack).rows_before \ Head(stack).new_keys # {}
    /\ DOMAIN Head(stack).rows_before \cap Head(stack).new_keys # {}
    /\ DOMAIN active_rows = Head(stack).new_keys

\* The number of leading positions at which two sequences agree.
CommonPrefix(p, q) ==
    LET ok == {n \in 0..Len(p) : n <= Len(q) /\ \A i \in 1..n : p[i] = q[i]}
    IN CHOOSE n \in ok : \A k \in ok : k <= n

\* C30: when a run whose list has distinct keys ends, the row nodes under
\* the container are in the order of the list; the rows that were at the
\* cursor were not moved, so a run whose list is in the order the container
\* already had has made no move.
C30_KeyedReorder ==
    ForRunDone /\ NoDup(NewKeySeq) =>
        /\ SelectSeq(root, LAMBDA w : contains(Desired, w)) = Desired
        /\ Head(stack).moves <= Len(Desired) - CommonPrefix(Head(stack).root_before, Desired)
        /\ Head(stack).root_before = Desired => Head(stack).moves = 0

\* A run over three stored rows in another order has ended: the first row
\* was in place and the other two were not.
C30_Witness ==
    /\ ForRunDone /\ NoDup(NewKeySeq)
    /\ Len(Desired) = 3
    /\ SeqSet(Head(stack).root_before) = SeqSet(Desired)
    /\ Head(stack).root_before # Desired
    /\ CommonPrefix(Head(stack).root_before, Desired) = 1
    /\ Head(stack).moves > 0
    /\ root = Desired


\* The flush of a write made from outside every closure is about to return.
TopFlushDone == FlushDone /\ Len(stack) = 1

\* The memo's signal holds another value than before the write being flushed.
MemoChanged ==
    /\ Live(nodes, reg["m"])
    /\ reg["m"] \in DOMAIN Head(stack).before
    /\ nodes[reg["m"]].value # Head(stack).before[reg["m"]]

\* C31: when the flush of a top-level write to a signal ends, an effect
\* other than the memo's has run once for the written signal if it was in the
\* write's snapshot, and once more if it reads the memo and the memo's value
\* changed: an effect that reads both has run twice; nothing orders the runs
\* or drops the second one.
C31_DiamondReruns ==
    TopFlushDone =>
        \A e \in Effects \ MemoEffects :
            Count(Head(stack).all, e) =
                (IF contains(Head(stack).snap, e) THEN 1 ELSE 0)
                + (IF MemoChanged /\ contains(nodes[e].dependencies, reg["m"]) THEN 1 ELSE 0)

\* A top-level write to a has ended in which the effect that reads a and the
\* memo has run twice and the effect that reads the memo alone has run once.
C31_Witness ==
    /\ TopFlushDone /\ MemoChanged
    /\ Head(stack).signal_id = reg["a"]
    /\ \E d, r \in Effects \ MemoEffects :
          /\ SeqSet(nodes[d].dependencies) = {reg["a"], reg["m"]}
          /\ Count(Head(stack).all, d) = 2
          /\ SeqSet(nodes[r].dependencies) = {reg["m"]}
          /\ Count(Head(stack).all, r) = 1


\* The fetches started by resource r, and of those the ones not yet completed.
FetchesOf(r) == {n \in 1..Len(hist.fetches) : hist.fetches[n].res = r}

Outstanding(r) == {n \in FetchesOf(r) : ~hist.fetches[n].done}

\* The resources whose owner is alive: the liveness flag is set, the owner
\* has been neither removed nor re-run, and the resource's signals are live.
OwnerAlive ==
    {r \in 1..Len(hist.resources) :
        /\ alive[r] /\ ~OwnerGone(State, r)
        /\ Live(nodes, hist.resources[r].data) /\ Live(nodes, hist.resources[r].loading)}

\* C32: between two top-level calls, the loading flag of a resource whose
\* owner is alive is true while a fetch started by the resource has not
\* completed, and false when fetches have completed and none is outstanding.
C32_LoadingWhileInFlight ==
    Idle =>
        \A r \in OwnerAlive :
            LET loading == nodes[hist.resources[r].loading].value IN
            /\ Outstanding(r) # {} => loading = <<1>>
            /\ Outstanding(r) = {} /\ FetchesOf(r) # {} => loading = <<0>>

\* The half of C32 the code keeps: with no fetch outstanding the flag is
\* false, and with no completion yet it is true.
C32_LoadingSettles ==
    Idle =>
        \A r \in OwnerAlive :
            LET loading == nodes[hist.resources[r].loading].value IN
            /\ Outstanding(r) = {} /\ FetchesOf(r) # {} => loading = <<0>>
            /\ Outstanding(r) = FetchesOf(r) /\ FetchesOf(r) # {} => loading = <<1>>

\* The fetch of resource r that was started last.
LastStarted(r) == CHOOSE n \in FetchesOf(r) : \A k \in FetchesOf(r) : k <= n

\* C35: between two top-level calls, when every fetch started by a resource
\* whose owner is alive has completed, data holds the result of the fetch
\* that was started last.
C35_LatestResultWins ==
    Idle =>
        \A r \in OwnerAlive :
            FetchesOf(r) # {} /\ Outstanding(r) = {} =>
                nodes[hist.resources[r].data].value = <<hist.fetches[LastStarted(r)].val>>


\* The effects that create a memo in their body.
MemoOwners ==
    {e \in Effects : nodes[e].computation.p \in {"memo_owner", "memo_owner_reads"}}

\* The signals the body of effect e reads itself.
OwnReads(e) ==
    LET code == Prog(nodes[e].computation.p)
    IN {reg[code[i].r] : i \in {j \in 1..Len(code) : code[j].op = "get"}}

\* C33: an effect that creates a memo has edges to the signals its own body
\* reads and to no other, whatever the memo's compute function reads; and
\* when the flush of a top-level write ends, such an effect has run once if
\* it was subscribed to the written signal and not at all otherwise.
C33_MemoSeedingUntracked ==
    /\ \A e \in MemoOwners : \A S \in Signals :
          contains(nodes[S].subscribers, e) \/ contains(nodes[e].dependencies, S)
              => S \in OwnReads(e)
    /\ TopFlushDone =>
          \A e \in MemoOwners :
              /\ Count(Head(stack).all, e) = (IF contains(Head(stack).snap, e) THEN 1 ELSE 0)
              /\ contains(Head(stack).snap, e) => Head(stack).signal_id \in OwnReads(e)

\* A top-level write to a signal that the memo's compute function reads and
\* the memo's creator does not has ended: the memo's effect has run, its
\* creator has not.
C33_Witness ==
    /\ TopFlushDone
    /\ \E e \in MemoOwners : \E me \in MemoEffects :
          /\ nodes[me].parent = e
          /\ contains(nodes[me].dependencies, Head(stack).signal_id)
          /\ Head(stack).signal_id \notin OwnReads(e)
          /\ contains(Head(stack).all, me)
          /\ ~contains(Head(stack).all, e)
          /\ Head(stack).old # Head(stack).new


\* The value the closure `code` returns in the current state when run from
\* its i-th call with `val` as its last value.
RECURSIVE Returns(_, _, _)
Returns(code, i, val) ==
    IF i > Len(code) THEN val
    ELSE LET got == get_untracked_internal(nodes, reg[code[i].r])
         IN IF code[i].op = "get_max"
            THEN Returns(code, i + 1, IF got > val THEN got ELSE val)
            ELSE Returns(code, i + 1, got)

\* C37: between two top-level calls, the signal of every memo whose signal
\* and effect are live holds what the memo's compute function returns for
\* the current values of the signals (and memos) it reads.
C37_MemoConsistency ==
    Idle =>
        \A me \in MemoEffects :
            LET M == nodes[me].computation.read IN
            Live(nodes, M) =>
                nodes[M].value = <<Returns(Prog(nodes[me].computation.f), 1, NoValue)>>

\* Two top-level writes have taken a memo and the memo that reads it to
\* another value and back.
C37_Witness ==
    /\ Idle
    /\ \E m1, m2 \in MemoEffects :
          /\ contains(nodes[m2].dependencies, nodes[m1].computation.read)
          /\ hist.runs[m1] >= 3 /\ hist.runs[m2] >= 3
          /\ nodes[nodes[m1].computation.read].value = <<0>>
          /\ nodes[nodes[m2].computation.read].value = <<0>>
          /\ nodes[reg["c"]].value = <<0>>


\* C34: between two top-level calls, the parent of every live node is absent
\* or is a live node that lists the node as a child.
C34_NoOrphans ==
    Idle =>
        \A n \in DOMAIN nodes :
            nodes[n].parent # None =>
                /\ Live(nodes, nodes[n].parent)
                /\ contains(nodes[nodes[n].parent].children, n)


\* The loop of the write on top of the stack is at a subscriber that is no
\* longer in the arena.
SkipTurn ==
    /\ stack # <<>> /\ Head(stack).k = "update"
    /\ Head(stack).effects_to_run # <<>>
    /\ ~Live(nodes, Head(Head(stack).effects_to_run))

\* C36: the turn of a snapshot entry that is no longer in the arena starts
\* no run (no body, no cleanup, no frame) and changes nothing in the runtime:
\* the loop moves on to the next entry.
C36_DisposedSubscriberSkipped ==
    [][SkipTurn =>
          /\ UNCHANGED <<nodes, versions, free, current_owner, reg, alive, tasks>>
          /\ Len(stack') = Len(stack) /\ Tail(stack') = Tail(stack)
          /\ Head(stack').effects_to_run = Tail(Head(stack).effects_to_run)
          /\ Head(stack').all = Head(stack).all
          /\ hist'.runs = hist.runs /\ hist'.callbacks = hist.callbacks
          /\ hist'.cleaned = hist.cleaned]_vars

\* A flush has ended in which a parent effect's re-run removed its child,
\* which was in the snapshot after it: the child's turn was skipped, and the
\* child the parent created in its place has run.
C36_Witness ==
    /\ FlushDone
    /\ \E e \in Head(stack).skipped :
          /\ contains(Head(stack).snap, e)
          /\ e \in hist.removed /\ hist.runs[e] = 1
          /\ contains(Head(stack).direct, hist.parent_of[e])
          /\ \E n \in Effects : n # e /\ nodes[n].parent = hist.parent_of[e]
                                /\ contains(Head(stack).all, n)


\* C38: between two top-level calls, every identifier in the dependency list
\* of a live effect is that of a live signal.
C38_NoDanglingDependencies ==
    Idle =>
        \A e \in Effects : \A S \in SeqSet(nodes[e].dependencies) :
            Live(nodes, S) /\ nodes[S].kind = "Signal"


\* A top-level call is made.
TopCall == Idle /\ budget' < budget

\* Every top-level write starts a flush over the subscribers the signal has
\* at that moment, whatever the value written (the signals written from the
\* top level in these programs are never disposed).
WriteStartsFlush ==
    TopCall =>
        /\ stack' # <<>>
        /\ Head(stack').k = "update" =>
              /\ Head(stack').effects_to_run = nodes[Head(stack').signal_id].subscribers
              /\ nodes'[Head(stack').signal_id].value = <<Head(stack').new>>
              /\ Head(stack').old = nodes[Head(stack').signal_id].value[1]

\* C39 as stated: a write to a live signal starts a flush whatever the value,
\* and when the flush ends every effect that was subscribed at the write has
\* run, also when the value written equals the value held before.
C39_NoEqualityFilter ==
    /\ [][WriteStartsFlush]_vars
    /\ [](FlushDone => \A e \in SeqSet(Head(stack).snap) : contains(Head(stack).all, e))

\* C39 as amended: the same for every effect subscribed at the write that is
\* still in the arena when its turn comes: it has run once in the flush's own
\* loop; the others have been skipped.
C39_NoEqualityFilterAtTurn ==
    /\ [][WriteStartsFlush]_vars
    /\ [](FlushDone =>
            \A e \in SeqSet(Head(stack).snap) :
                IF e \in Head(stack).skipped
                THEN ~contains(Head(stack).direct, e)
                ELSE contains(Head(stack).direct, e) /\ contains(Head(stack).all, e))

\* A top-level write of the value the signal already held has ended; each of
\* its three subscribers has run.
C39_Witness ==
    /\ TopFlushDone
    /\ Head(stack).old = Head(stack).new
    /\ Len(Head(stack).snap) = 3
    /\ Head(stack).direct = Head(stack).snap
    /\ \A e \in SeqSet(Head(stack).snap) : hist.runs[e] >= 2


\* C40: the context map of a live node holds, for every type, the value last
\* provided on the node in any of its runs, and nothing else: no clean step
\* removes an entry; and use_context returns the value of the nearest such
\* node, whether or not the run that is executing has provided it again.
C40_ContextSurvivesRerun ==
    /\ \A n \in DOMAIN nodes : \A t \in Types \cup {SuspenseType} :
          IF <<n, t>> \in DOMAIN hist.provided
          THEN t \in DOMAIN nodes[n].context /\ nodes[n].context[t] = hist.provided[<<n, t>>]
          ELSE t \notin DOMAIN nodes[n].context
    /\ JustCalled("use_context") /\ current_owner # None /\ Live(nodes, current_owner) =>
          Head(stack).val = use_context_from(nodes, current_owner, AskedType)

\* use_context has returned, in a node created during the second run of an
\* effect, the value the effect provided in its first run; the second run
\* has not called provide_context.
C40_Witness ==
    /\ JustCalled("use_context") /\ AskedType = "T1"
    /\ Head(stack).val = 1
    /\ nodes[reg["a"]].value = <<1>>
    /\ \E e \in StrictAncestors(current_owner) \cap Effects :
          /\ nodes[e].computation.p = "ctx_once"
          /\ hist.runs[e] = 2
          /\ TopRunOf(stack, e) # 0
          /\ nodes[e].context["T1"] = 1

====
